---- MODULE Spec2Model ----
(***************************************************************************)
(* A model of systems-ts: stock/flow models built through the Model API,    *)
(* validated (existing references, reference cycles), initialised in        *)
(* dependency order and advanced round by round (models.ts, algos.ts).      *)
(*                                                                          *)
(* Numbers are JavaScript doubles.  They are modelled as exact rationals    *)
(* n/d plus the IEEE special values +Infinity, -Infinity and NaN, and the   *)
(* JavaScript value undefined (what a lookup of a missing key yields).      *)
(* The literals of the input menus are integers and dyadic fractions, on    *)
(* which double arithmetic is exact.                                        *)
(***************************************************************************)
EXTENDS Integers, Sequences, FiniteSets, TLC

(***************************************************************************)
(* Numbers                                                                  *)
(***************************************************************************)
RECURSIVE GCD(_, _)
GCD(a, b) == IF b = 0 THEN a ELSE GCD(b, a % b)

Abs(n) == IF n < 0 THEN 0 - n ELSE n

\* the finite number n/d (d > 0), in lowest terms
Fin(n, d) ==
    LET g == GCD(Abs(n), d)
    IN  [k |-> "fin", n |-> n \div g, d |-> d \div g]

Num(n) == [k |-> "fin", n |-> n, d |-> 1]
PosInf == [k |-> "inf", n |-> 0, d |-> 1]
NegInf == [k |-> "ninf", n |-> 0, d |-> 1]
NaN == [k |-> "nan", n |-> 0, d |-> 1]
Undefined == [k |-> "undef", n |-> 0, d |-> 1]
\* the accumulator of Formula.compute before the first operand
Null == [k |-> "null", n |-> 0, d |-> 1]

IsFin(x) == x.k = "fin"
\* NaN-class operands: NaN itself, and undefined, which ToNumber turns into NaN
IsNaN(x) == x.k \in {"nan", "undef"}

\* -1, 0, 1 for a number that is not NaN
Sign(x) ==
    CASE x.k = "inf" -> 1
      [] x.k = "ninf" -> 0 - 1
      [] OTHER -> IF x.n > 0 THEN 1 ELSE IF x.n < 0 THEN 0 - 1 ELSE 0

Signed(s) == IF s > 0 THEN PosInf ELSE NegInf

Neg(x) ==
    CASE IsNaN(x) -> NaN
      [] x.k = "inf" -> NegInf
      [] x.k = "ninf" -> PosInf
      [] OTHER -> [k |-> "fin", n |-> 0 - x.n, d |-> x.d]

\* x + y
Plus(x, y) ==
    CASE IsNaN(x) \/ IsNaN(y) -> NaN
      [] IsFin(x) /\ IsFin(y) -> Fin(x.n * y.d + y.n * x.d, x.d * y.d)
      [] IsFin(x) -> y
      [] IsFin(y) -> x
      [] OTHER -> IF x.k = y.k THEN x ELSE NaN

\* x - y
Minus(x, y) == Plus(x, Neg(y))

\* x * y
Times(x, y) ==
    CASE IsNaN(x) \/ IsNaN(y) -> NaN
      [] IsFin(x) /\ IsFin(y) -> Fin(x.n * y.n, x.d * y.d)
      [] OTHER -> IF Sign(x) = 0 \/ Sign(y) = 0 THEN NaN ELSE Signed(Sign(x) * Sign(y))

\* x / y (the sign of a zero divisor is taken as positive)
Divide(x, y) ==
    CASE IsNaN(x) \/ IsNaN(y) -> NaN
      [] IsFin(x) /\ IsFin(y) ->
            IF y.n = 0
            THEN IF x.n = 0 THEN NaN ELSE Signed(Sign(x))
            ELSE Fin(Sign(y) * x.n * y.d, x.d * Abs(y.n))
      [] IsFin(x) -> Num(0)
      [] IsFin(y) -> Signed(Sign(x) * (IF Sign(y) < 0 THEN 0 - 1 ELSE 1))
      [] OTHER -> NaN

\* x < y, false when either is NaN
Lt(x, y) ==
    /\ ~IsNaN(x)
    /\ ~IsNaN(y)
    /\ CASE IsFin(x) /\ IsFin(y) -> x.n * y.d < y.n * x.d
         [] OTHER -> x.k # y.k /\ (x.k = "ninf" \/ y.k = "inf")

Le(x, y) == ~IsNaN(x) /\ ~IsNaN(y) /\ ~Lt(y, x)
Gt(x, y) == Lt(y, x)
Ge(x, y) == Le(y, x)

\* x === y
StrictEq(x, y) == x.k # "nan" /\ x = y

\* Math.floor
Floor(x) ==
    CASE IsNaN(x) -> NaN
      [] IsFin(x) -> Num(x.n \div x.d)
      [] OTHER -> x

\* Math.min, Math.max
MathMin(x, y) == IF IsNaN(x) \/ IsNaN(y) THEN NaN ELSE IF Lt(y, x) THEN y ELSE x
MathMax(x, y) == IF IsNaN(x) \/ IsNaN(y) THEN NaN ELSE IF Lt(x, y) THEN y ELSE x

(***************************************************************************)
(* Formulas: a lexed formula is a sequence of leaves; a parenthesised group *)
(* is a leaf of kind TOKEN_FORMULA holding its own leaf sequence.           *)
(***************************************************************************)
TOKEN_WHOLE == "whole"
TOKEN_DECIMAL == "decimal"
TOKEN_INFINITY == "inf"
TOKEN_REFERENCE == "reference"
TOKEN_FORMULA == "formula"
TOKEN_OP == "operation"

Leaf(kind, name, n, d, sub) == [kind |-> kind, name |-> name, n |-> n, d |-> d, sub |-> sub]
\* [TOKEN_WHOLE, "n"], [TOKEN_DECIMAL, "n/d as a decimal"], [TOKEN_INFINITY, "inf"]
Whole(n) == Leaf(TOKEN_WHOLE, "", n, 1, <<>>)
Decimal(n, d) == Leaf(TOKEN_DECIMAL, "", n, d, <<>>)
Infinity == Leaf(TOKEN_INFINITY, "", 0, 1, <<>>)
Ref(name) == Leaf(TOKEN_REFERENCE, name, 0, 1, <<>>)
Op(o) == Leaf(TOKEN_OP, o, 0, 1, <<>>)
Group(tokens) == Leaf(TOKEN_FORMULA, "", 0, 1, tokens)

\* Formula: the lexed definition and the default value
Formula(tokens) == [lexed |-> tokens, default |-> Num(0)]

\* Formula.references: the names of the reference leaves of the top-level
\* sequence, in order of appearance, duplicates kept
RECURSIVE RefsOf(_)
RefsOf(tokens) ==
    IF tokens = <<>> THEN <<>>
    ELSE (IF Head(tokens).kind = TOKEN_REFERENCE THEN <<Head(tokens).name>> ELSE <<>>)
         \o RefsOf(Tail(tokens))

references(f) == RefsOf(f.lexed)

\* Formula.validate without the test after the loop
validateWithoutLast(tokens) ==
    IF Len(tokens) = 0 THEN "InvalidFormula"
    ELSE IF \E i \in 1..Len(tokens) :
               IF tokens[i].kind = TOKEN_OP
               THEN i = 1 \/ tokens[i - 1].kind = TOKEN_OP
               ELSE i > 1 /\ tokens[i - 1].kind # TOKEN_OP
    THEN "InvalidFormula"
    ELSE ""

\* Formula.validate: the error thrown for the leaf sequence, "" when none.
\* The loop throws at the first leaf that is an operation at the start or
\* after an operation, or a value after a value.
validate(tokens) ==
    IF Len(tokens) = 0 THEN "InvalidFormula"
    ELSE IF \E i \in 1..Len(tokens) :
               IF tokens[i].kind = TOKEN_OP
               THEN i = 1 \/ tokens[i - 1].kind = TOKEN_OP
               ELSE i > 1 /\ tokens[i - 1].kind # TOKEN_OP
    THEN "InvalidFormula"
    ELSE IF tokens[Len(tokens)].kind = TOKEN_OP THEN "InvalidFormula"
    ELSE ""

\* Formula.compute builds a Formula of every group it meets, at every depth,
\* and that constructor validates the group: TRUE when none of them throws
RECURSIVE groupsValid(_)
groupsValid(tokens) ==
    \A i \in 1..Len(tokens) :
       tokens[i].kind = TOKEN_FORMULA
          => validate(tokens[i].sub) = "" /\ groupsValid(tokens[i].sub)

\* one step of the fold of Formula.compute
Apply(acc, op, val) ==
    CASE acc = Null -> val
      [] op = "/" -> Divide(acc, val)
      [] op = "*" -> Times(acc, val)
      [] op = "+" -> Plus(acc, val)
      [] op = "-" -> Minus(acc, val)
      [] OTHER -> acc

Lookup(state, name) == IF name \in DOMAIN state THEN state[name] ELSE Undefined

\* the loop of Formula.compute over tokens[i..], with accumulator and pending
\* operator; yields the accumulator (Null when there was no operand).  A group
\* is computed as a Formula of its own (default 0) against the same state.
RECURSIVE Fold(_, _, _, _, _)
Fold(tokens, i, acc, op, state) ==
    IF i > Len(tokens) THEN acc
    ELSE LET t == tokens[i] IN
         IF t.kind = TOKEN_OP THEN Fold(tokens, i + 1, acc, t.name, state)
         ELSE LET sub == Fold(t.sub, 1, Null, "", state)
                  val == CASE t.kind = TOKEN_WHOLE -> Num(t.n)
                           [] t.kind = TOKEN_INFINITY -> PosInf
                           [] t.kind = TOKEN_DECIMAL -> Fin(t.n, t.d)
                           [] t.kind = TOKEN_REFERENCE -> Lookup(state, t.name)
                           [] OTHER -> IF sub = Null THEN Num(0) ELSE sub
              IN  Fold(tokens, i + 1, Apply(acc, op, val), op, state)

\* operand, then operator and operand again and again, folded with * and /
\* binding tighter than + and -
RECURSIVE PrecedenceFold(_, _, _, _, _, _)
PrecedenceFold(tokens, i, sum, sumOp, term, state) ==
    IF i > Len(tokens) THEN Apply(sum, sumOp, term)
    ELSE LET val == Fold(<<tokens[i]>>, 1, Null, "", state)
             op == IF i = 1 THEN "+" ELSE tokens[i - 1].name
         IN  IF i > 1 /\ op \in {"*", "/"}
             THEN PrecedenceFold(tokens, i + 2, sum, sumOp, Apply(term, op, val), state)
             ELSE PrecedenceFold(tokens, i + 2,
                                 IF i = 1 THEN Null ELSE Apply(sum, sumOp, term),
                                 op, val, state)

\* Formula.compute were it to give * and / precedence over + and -
computeWithPrecedence(f, state) ==
    IF f.lexed = <<>> THEN f.default
    ELSE PrecedenceFold(f.lexed, 1, Null, "+", Null, state)

\* Formula.compute, for a formula whose groups are valid
compute(f, state) ==
    LET acc == Fold(f.lexed, 1, Null, "", state)
    IN  IF acc # Null THEN acc ELSE f.default

\* the state of no stock: Formula.compute() without argument
EmptyState == [x \in {} |-> Null]

(***************************************************************************)
(* Stocks, flows and rates                                                  *)
(***************************************************************************)
Stock(name, initial, maximum, show) ==
    [name |-> name, initial |-> initial, maximum |-> maximum, show |-> show]

RateKinds == {"Rate", "Conversion", "Leak"}

\* Model.getStock: the first stock of that name (names are unique here)
getStock(stocks, name) ==
    stocks[CHOOSE i \in 1..Len(stocks) :
              stocks[i].name = name /\ \A j \in 1..(i - 1) : stocks[j].name # name]

Names(stocks) == {stocks[i].name : i \in 1..Len(stocks)}

\* the position in Model.stocks of the Stock object getStock returns
stockIndex(stocks, name) ==
    CHOOSE i \in 1..Len(stocks) :
        stocks[i].name = name /\ \A j \in 1..(i - 1) : stocks[j].name # name

\* new Flow(source, destination, rate): the flow holds the two Stock objects,
\* kept as their positions in Model.stocks next to their names
Flow(stocks, sourceRef, destinationRef, rate) ==
    [source |-> stocks[sourceRef].name, destination |-> stocks[destinationRef].name,
     rate |-> rate, sourceRef |-> sourceRef, destinationRef |-> destinationRef]

\* Rate.calculate without the test of the source against the rate
RateCalculateIgnoringSource(evaluated, src, dest, capacity) ==
    IF Gt(src, Num(0))
    THEN LET change == MathMin(capacity, MathMax(Num(0), evaluated))
         IN  <<change, change>>
    ELSE <<Num(0), Num(0)>>

\* Rate.calculate: <<removed from the source, added to the destination>>
RateCalculate(evaluated, src, dest, capacity) ==
    IF Gt(src, Num(0))
    THEN LET c0 == IF Ge(Minus(src, evaluated), Num(0)) THEN evaluated ELSE src
             change == MathMin(capacity, MathMax(Num(0), c0))
         IN  <<change, change>>
    ELSE <<Num(0), Num(0)>>

\* Conversion.calculate without the test "change === 0"
ConversionCalculateKeepingZero(evaluated, src, dest, capacity) ==
    LET maxSrcChange ==
            IF dest = PosInf \/ capacity = PosInf
            THEN src
            ELSE MathMax(Num(0), Floor(Divide(Minus(capacity, dest), evaluated)))
    IN  <<maxSrcChange, Floor(Times(maxSrcChange, evaluated))>>

\* Conversion.calculate
ConversionCalculate(evaluated, src, dest, capacity) ==
    LET maxSrcChange ==
            IF dest = PosInf \/ capacity = PosInf
            THEN src
            ELSE MathMax(Num(0), Floor(Divide(Minus(capacity, dest), evaluated)))
        change == Floor(Times(maxSrcChange, evaluated))
    IN  IF StrictEq(change, Num(0)) THEN <<Num(0), Num(0)>> ELSE <<maxSrcChange, change>>

\* Leak.calculate without the limit of the capacity
LeakCalculateUnclamped(evaluated, src, dest, capacity) ==
    LET c0 == Floor(Times(src, evaluated))
    IN  <<c0, c0>>

\* Leak.calculate
LeakCalculate(evaluated, src, dest, capacity) ==
    LET c0 == Floor(Times(src, evaluated))
        change == IF ~IsNaN(capacity) THEN MathMin(capacity, c0) ELSE c0
    IN  <<change, change>>

\* rate.calculate(state, src, dest, capacity), dispatched on the rate's class
calculate(rate, state, src, dest, capacity) ==
    LET evaluated == compute(rate.formula, state)
    IN  CASE rate.kind = "Rate" -> RateCalculate(evaluated, src, dest, capacity)
          [] rate.kind = "Conversion" -> ConversionCalculate(evaluated, src, dest, capacity)
          [] OTHER -> LeakCalculate(evaluated, src, dest, capacity)

\* validateSource were only Conversion to override it
validateSourceOfConversionOnly(rate, sourceStock) ==
    rate.kind # "Conversion" \/ compute(sourceStock.initial, EmptyState) # PosInf

\* Conversion.validateSource / Leak.validateSource: TRUE when the source is legal
validateSource(rate, sourceStock) ==
    rate.kind = "Rate" \/ compute(sourceStock.initial, EmptyState) # PosInf

\* Flow.change: the capacity handed to the rate
adjustedCapacity(stocks, flow, state, destState) ==
    LET capacity == compute(stocks[flow.destinationRef].maximum, state)
    IN  IF destState # PosInf THEN Minus(capacity, destState) ELSE capacity

\* Flow.change
FlowChange(stocks, flow, state, sourceState, destState) ==
    calculate(flow.rate, state, sourceState, destState,
              adjustedCapacity(stocks, flow, state, destState))

(***************************************************************************)
(* algos.ts: findCycles.  A graph maps each node to its list of edges; the  *)
(* nodes are visited in key insertion order, given as the sequence order.   *)
(***************************************************************************)
\* Array.indexOf + splice(index, 1): drop the first occurrence of x
RECURSIVE RemoveFirst(_, _)
RemoveFirst(seq, x) ==
    IF seq = <<>> THEN <<>>
    ELSE IF Head(seq) = x THEN Tail(seq)
    ELSE <<Head(seq)>> \o RemoveFirst(Tail(seq), x)

\* the inner loop with no inward list changed
SeverNothing(inGraph, node, edges) == inGraph

\* the inner loop "for (const edge of edges)": node is removed from the inward
\* list of each of its targets
RECURSIVE Sever(_, _, _)
Sever(inGraph, node, edges) ==
    IF edges = <<>> THEN inGraph
    ELSE Sever([inGraph EXCEPT ![Head(edges)] = RemoveFirst(@, node)], node, Tail(edges))

\* the peeled node left with the edges it had
keepEdges(cycles, node) == cycles

\* "cycles[node] = []": the peeled node is left without edges
clearEdges(cycles, node) == [cycles EXCEPT ![node] = <<>>]

\* one pass "for (const node in cycles)" from position i on
RECURSIVE Scan(_, _, _)
Scan(order, i, g) ==
    IF i > Len(order) THEN g
    ELSE LET node == order[i]
             edges == g.cycles[node]
         IN  IF g.inGraph[node] = <<>> /\ Len(edges) > 0
             THEN Scan(order, i + 1,
                       [inGraph |-> Sever(g.inGraph, node, edges),
                        cycles |-> clearEdges(g.cycles, node),
                        deps |-> Append(g.deps, node),
                        changed |-> TRUE])
             ELSE Scan(order, i + 1, g)

\* the loop "while (changed)"
RECURSIVE Peel(_, _)
Peel(order, g) ==
    LET h == Scan(order, 1, [g EXCEPT !.changed = FALSE])
    IN  IF h.changed THEN Peel(order, h) ELSE h

\* deps returned as they were pushed
Unreversed(seq) == seq

\* Array.reverse
RECURSIVE Reverse(_)
Reverse(seq) == IF seq = <<>> THEN <<>> ELSE Append(Reverse(Tail(seq)), Head(seq))

\* findCycles(inGraph, outGraph); inGraph is the caller's map as the call leaves it
findCycles(order, inGraph, outGraph) ==
    LET g == Peel(order, [inGraph |-> inGraph, cycles |-> outGraph,
                          deps |-> <<>>, changed |-> TRUE])
    IN  [hasCycle |-> \E node \in DOMAIN g.cycles : Len(g.cycles[node]) > 0,
         cycles |-> g.cycles,
         initialPath |-> Reverse(g.deps),
         inGraph |-> g.inGraph]

(***************************************************************************)
(* Model validation                                                         *)
(***************************************************************************)
RECURSIVE Concat(_)
Concat(seqs) == IF seqs = <<>> THEN <<>> ELSE Head(seqs) \o Concat(Tail(seqs))

\* Model.validateExistingStocks: TRUE when no InvalidFormula is thrown
validateExistingStocks(stocks, flows) ==
    LET refs == Concat([i \in 1..Len(stocks) |->
                          references(stocks[i].maximum) \o references(stocks[i].initial)])
                \o Concat([i \in 1..Len(flows) |-> references(flows[i].rate.formula)])
    IN  \A i \in 1..Len(refs) : refs[i] \in Names(stocks)

\* the inward and outward reference maps built by Model.validateInitialCycles
\* (called after validateExistingStocks passed, so every reference is a key)
\* the keys of the two maps in insertion order: each name once, at the place
\* of its first stock
StockOrder(stocks) ==
    LET firsts == SelectSeq([i \in 1..Len(stocks) |-> i],
                            LAMBDA i : i = stockIndex(stocks, stocks[i].name))
    IN  [k \in 1..Len(firsts) |-> stocks[firsts[k]].name]

outwardRefs(stocks) ==
    [name \in Names(stocks) |->
        Concat([i \in 1..Len(stocks) |->
                  IF stocks[i].name = name THEN references(stocks[i].initial) ELSE <<>>])]

RECURSIVE CountOf(_, _)
CountOf(seq, x) ==
    IF seq = <<>> THEN 0
    ELSE (IF Head(seq) = x THEN 1 ELSE 0) + CountOf(Tail(seq), x)

Repeat(x, n) == [i \in 1..n |-> x]

inwardRefs(stocks) ==
    [name \in Names(stocks) |->
        Concat([i \in 1..Len(stocks) |->
                  Repeat(stocks[i].name, CountOf(references(stocks[i].initial), name))])]

\* Model.validateInitialCycles: the result of findCycles on the two maps
validateInitialCycles(stocks) ==
    findCycles(StockOrder(stocks), inwardRefs(stocks), outwardRefs(stocks))

(***************************************************************************)
(* State                                                                    *)
(***************************************************************************)
Put(state, name, val) ==
    [x \in DOMAIN state \cup {name} |-> IF x = name THEN val ELSE state[x]]

\* first loop of the State constructor: stocks outside the initial path
RECURSIVE InitOutside(_, _, _, _)
InitOutside(stocks, initialPath, i, state) ==
    IF i > Len(stocks) THEN state
    ELSE IF \E j \in 1..Len(initialPath) : initialPath[j] = stocks[i].name
    THEN InitOutside(stocks, initialPath, i + 1, state)
    ELSE InitOutside(stocks, initialPath, i + 1,
                     Put(state, stocks[i].name, compute(stocks[i].initial, state)))

\* second loop of the State constructor: stocks of the initial path, in path order
RECURSIVE InitPath(_, _, _, _)
InitPath(stocks, initialPath, j, state) ==
    IF j > Len(initialPath) THEN state
    ELSE InitPath(stocks, initialPath, j + 1,
                  IF initialPath[j] \in Names(stocks)
                  THEN Put(state, initialPath[j],
                           compute(getStock(stocks, initialPath[j]).initial, state))
                  ELSE state)

\* new State(model)
NewState(stocks, initialPath) ==
    InitPath(stocks, initialPath, 1, InitOutside(stocks, initialPath, 1, EmptyState))

(***************************************************************************)
(* The inputs: bounded menus of stock and flow definitions                  *)
(***************************************************************************)
\* rounds asked of run() range over 0..MaxRounds
MaxRounds == 2

StockNames == <<"a", "b", "c">>
\* a name that is never a stock
Missing == "zz"

F1(x) == Formula(<<x>>)
F3(x, o, y) == Formula(<<x, Op(o), y>>)

DefaultInitial == F1(Whole(0))
DefaultMaximum == F1(Infinity)

\* <<initial, maximum>> given as numbers ("0 - 2" is how a negative value is
\* written: "-2" lexes as an operation followed by a value)
LiteralStocks ==
    {<<DefaultInitial, DefaultMaximum>>,
     <<F1(Whole(8)), DefaultMaximum>>,
     <<F3(Whole(0), "-", Whole(2)), DefaultMaximum>>,
     <<F1(Whole(1)), F1(Whole(4))>>}

\* <<initial, maximum>> with references: at top level, inside a group, missing
RefStocks ==
    {<<F1(Whole(2)), DefaultMaximum>>,
     <<F1(Ref(Missing)), DefaultMaximum>>,
     <<F3(Group(<<Ref(Missing)>>), "*", Whole(2)), DefaultMaximum>>,
     <<F1(Whole(2)), F1(Ref(Missing))>>,
     <<F1(Whole(2)), F1(Group(<<Ref(Missing)>>))>>,
     <<F1(Whole(2)), F1(Ref("a"))>>}
    \cup {<<F3(Ref(StockNames[i]), "+", Whole(1)), DefaultMaximum>> : i \in 1..Len(StockNames)}
    \cup {<<F3(Group(<<Ref(StockNames[i])>>), "*", Whole(2)), DefaultMaximum>> :
             i \in 1..Len(StockNames)}

\* the rate formulas offered to each kind of flow
RateFormulas ==
    [kind \in RateKinds |->
        CASE kind = "Rate" -> {F1(Whole(3)), F1(Ref("b"))}
          [] kind = "Conversion" -> {F1(Decimal(1, 2))}
          [] OTHER -> {F1(Decimal(1, 2))}]
RefRateFormulas == {F1(Whole(3)), F1(Ref(Missing)), F1(Group(<<Ref(Missing)>>))}

IsInfinite(s) == s.initial = F1(Infinity) /\ s.maximum = DefaultMaximum /\ ~s.show

\* the models explored:
\*  - stocks given as numbers (or infinite) under at most two flows between
\*    distinct stocks, the first of them a > b (any such model is one of these
\*    up to the names of its stocks); or
\*  - stocks defined through references under at most one Rate flow a > b.
InScope(ss, fs) ==
    \/ /\ \A i \in 1..Len(ss) :
             IsInfinite(ss[i]) \/ (<<ss[i].initial, ss[i].maximum>> \in LiteralStocks /\ ss[i].show)
       /\ Len(fs) <= 2
       /\ \A i \in 1..Len(fs) :
             /\ fs[i].rate.formula \in RateFormulas[fs[i].rate.kind]
             /\ fs[i].source # fs[i].destination
             /\ i = 1 => (fs[i].source = "a" /\ fs[i].destination = "b")
    \/ /\ \A i \in 1..Len(ss) : <<ss[i].initial, ss[i].maximum>> \in RefStocks /\ ss[i].show
       /\ Len(fs) <= 1
       /\ \A i \in 1..Len(fs) :
             /\ fs[i].rate.kind = "Rate"
             /\ fs[i].rate.formula \in RefRateFormulas
             /\ fs[i].source = "a" /\ fs[i].destination = "b"

(***************************************************************************)
(* The program state                                                        *)
(***************************************************************************)
VARIABLES
    stocks,       \* Model.stocks
    flows,        \* Model.flows
    initialPath,  \* Model.initialPath
    pc,           \* "build", "advance" (inside run's loop), "done", "failed"
    error,        \* the error thrown, "" when none
    rounds,       \* the argument of run()
    state,        \* State.state of the running simulation
    idx,          \* flows still to process in the current advance()
    deferred,     \* the deferred additions of the current advance()
    snapshots,    \* the list run() returns
    roundStart,   \* history: State.state when the current round began
    moved,        \* history: what each flow of the current round saw and moved
    text,         \* the lines of the spec text given to parse()
    pos,          \* the number of lines of text the current parse() has read
    pass,         \* 1 in the first parse-and-run of the text, 2 in the second
    firstRun,     \* history: the rounds and the result of the first run
    leaves,       \* the leaf sequence given to new Formula()
    env,          \* the state map given to Formula.compute()
    built,        \* what new Formula(leaves) gave: the object, or the error thrown
    value,        \* what built.compute(env) gave: the number, or the error thrown
    lexText,      \* the text given to lex(), a sequence of characters
    bare,         \* history: the same text written without its comment
    scan,         \* the position and the locals of lex()'s loop over source
    heap,         \* the state maps allocated: State.state objects and snapshots
    stateOf,      \* for each State object the place in heap of its state map, 0 before new State
    shots,        \* the places in heap of the maps snapshot() returned, in call order
    taken,        \* history: what each of those maps held when it was returned
    alone,        \* history: the state map of each State object were it the only one
    calls,        \* the number of calls made on each State object
    output,       \* the string Model.render returned, a sequence of characters
    sep,          \* the separator given to render
    pad,          \* the pad flag given to render
    raised,       \* the error object parse() threw to its caller
    graph,        \* the node order and the edge maps given to findCycles
    cycleResult,  \* what findCycles returned
    peel          \* the locals of findCycles inside its loop and the scans made

\* the variables of the units exercised on their own
formulaVars == <<leaves, env, built, value>>
lexVars == <<lexText, bare, scan>>
objVars == <<heap, stateOf, shots, taken, alone, calls>>
renderVars == <<output, sep, pad>>
errVars == <<raised>>
graphVars == <<graph, cycleResult, peel>>
unitVars == <<formulaVars, lexVars, objVars, renderVars, errVars, graphVars>>

vars == <<stocks, flows, initialPath, pc, error, rounds, state, idx, deferred,
          snapshots, roundStart, moved, text, pos, pass, firstRun, unitVars>>

\* no unit has been exercised
None == [none |-> TRUE]

\* the State objects exercised side by side
Objects == {"A", "B"}

FormulaIdle ==
    /\ leaves = <<>>
    /\ env = EmptyState
    /\ built = None
    /\ value = None

LexIdle ==
    /\ lexText = <<>>
    /\ bare = <<>>
    /\ scan = None

ObjIdle ==
    /\ heap = <<>>
    /\ stateOf = [o \in Objects |-> 0]
    /\ shots = <<>>
    /\ taken = <<>>
    /\ alone = [o \in Objects |-> EmptyState]
    /\ calls = [o \in Objects |-> 0]

RenderIdle ==
    /\ output = None
    /\ sep = "\t"
    /\ pad = TRUE

ErrIdle == raised = None

GraphIdle ==
    /\ graph = None
    /\ cycleResult = None
    /\ peel = None

UnitIdle == FormulaIdle /\ LexIdle /\ ObjIdle /\ RenderIdle /\ ErrIdle /\ GraphIdle

\* a new Model, nothing parsed, nothing run
ModelIdle ==
    /\ stocks = <<>>
    /\ flows = <<>>
    /\ initialPath = <<>>
    /\ pc = "build"
    /\ error = ""
    /\ rounds = 0
    /\ state = EmptyState
    /\ idx = 0
    /\ deferred = <<>>
    /\ snapshots = <<>>
    /\ roundStart = EmptyState
    /\ moved = <<>>
    /\ text = <<>>
    /\ pos = 0
    /\ pass = 1
    /\ firstRun = [rounds |-> 0, snapshots |-> <<>>]

Init == ModelIdle /\ UnitIdle

parseVars == <<text, pos, pass, firstRun>>

runVars == <<rounds, state, idx, deferred, snapshots, roundStart, moved>>

\* Model.stock(name, initial, maximum): stocks are declared before flows, under
\* the names of StockNames in turn
AddStock ==
    /\ pc = "build"
    /\ flows = <<>>
    /\ Len(stocks) < Len(StockNames)
    /\ \E def \in LiteralStocks \cup RefStocks :
          LET s == Stock(StockNames[Len(stocks) + 1], def[1], def[2], TRUE)
          IN  /\ InScope(Append(stocks, s), flows)
              /\ stocks' = Append(stocks, s)
    /\ UNCHANGED <<flows, initialPath, pc, error, runVars, parseVars, unitVars>>

\* Model.infiniteStock(name)
AddInfiniteStock ==
    /\ pc = "build"
    /\ flows = <<>>
    /\ Len(stocks) < Len(StockNames)
    /\ LET s == Stock(StockNames[Len(stocks) + 1], F1(Infinity), DefaultMaximum, FALSE)
       IN  /\ InScope(Append(stocks, s), flows)
           /\ stocks' = Append(stocks, s)
    /\ UNCHANGED <<flows, initialPath, pc, error, runVars, parseVars, unitVars>>

\* Model.flow(source, destination, rate): new Flow validates the source first
AddFlow ==
    /\ pc = "build"
    /\ \E kind \in RateKinds, source \in Names(stocks), destination \in Names(stocks) :
       \E formula \in RateFormulas[kind] \cup RefRateFormulas :
          LET rate == [kind |-> kind, formula |-> formula]
              f == Flow(stocks, stockIndex(stocks, source),
                        stockIndex(stocks, destination), rate)
          IN  /\ InScope(stocks, Append(flows, f))
              /\ IF validateSource(rate, stocks[f.sourceRef])
                 THEN /\ flows' = Append(flows, f)
                      /\ UNCHANGED <<pc, error>>
                 ELSE /\ pc' = "failed"
                      /\ error' = "IllegalSourceStock"
                      /\ UNCHANGED flows
    /\ UNCHANGED <<stocks, initialPath, runVars, parseVars, unitVars>>

\* the second loop of State.advance: the deferred additions, in order
RECURSIVE ApplyDeferred(_, _)
ApplyDeferred(st, list) ==
    IF list = <<>> THEN st
    ELSE ApplyDeferred([st EXCEPT ![Head(list)[1]] = Plus(@, Head(list)[2])], Tail(list))

\* State.advance with the addition applied at once, like the removal
WithdrawAndAdd(st, flow, change) ==
    LET less == [st EXCEPT ![flow.source] = Minus(@, change[1])]
    IN  [less EXCEPT ![flow.destination] = Plus(@, change[2])]

\* State.advance, first loop: the removal is applied to the live state at once
Withdraw(st, flow, change) == [st EXCEPT ![flow.source] = Minus(@, change[1])]

\* State.advance with the deferred additions kept one per destination, a
\* later addition replacing the earlier one
DeferOnePerDestination(list, flow, change) ==
    Append(SelectSeq(list, LAMBDA e : e[1] # flow.destination),
           <<flow.destination, change[2]>>)

\* State.advance, first loop: the addition is pushed on the deferred list
Defer(list, flow, change) == Append(list, <<flow.destination, change[2]>>)

\* the loop test of run with <= for <
MoreRoundsInclusive(i, n) == i <= n

\* the test of run's loop "for (let i = 0; i < rounds; i++)"
MoreRounds(i, n) == i < n

\* the order found added to the order cached by the call before
appendInitialPath(cached, found) == cached \o found

\* "this.initialPath = initialPath": the order found replaces the cached one
cacheInitialPath(cached, found) == found

\* Model.run(n) up to its loop: validate(), new State, the first snapshot
Run ==
    /\ pc = "build"
    /\ \E n \in 0..MaxRounds :
          LET found == validateInitialCycles(stocks)
              s0 == NewState(stocks, found.initialPath)
          IN  IF ~validateExistingStocks(stocks, flows)
              THEN /\ pc' = "failed"
                   /\ error' = "InvalidFormula"
                   /\ UNCHANGED <<initialPath, runVars>>
              ELSE IF found.hasCycle
              THEN /\ pc' = "failed"
                   /\ error' = "CircularReferences"
                   /\ UNCHANGED <<initialPath, runVars>>
              ELSE /\ initialPath' = cacheInitialPath(initialPath, found.initialPath)
                   /\ state' = NewState(stocks, initialPath')
                   /\ snapshots' = <<state'>>
                   /\ rounds' = n
                   /\ pc' = IF MoreRounds(0, n) THEN "advance" ELSE "done"
                   /\ idx' = IF MoreRounds(0, n) THEN Len(flows) ELSE 0
                   /\ deferred' = <<>>
                   /\ roundStart' = state'
                   /\ moved' = <<>>
                   /\ UNCHANGED error
    /\ UNCHANGED <<stocks, flows, parseVars, unitVars>>

\* one iteration of the first loop of State.advance: flow number idx
AdvanceFlow ==
    /\ pc = "advance"
    /\ idx >= 1
    /\ LET flow == flows[idx]
           sourceState == state[flow.source]
           destinationState == state[flow.destination]
           change == FlowChange(stocks, flow, state, sourceState, destinationState)
           first == idx = Len(flows)
       IN  /\ state' = Withdraw(state, flow, change)
           /\ deferred' = Defer(deferred, flow, change)
           /\ roundStart' = IF first THEN state ELSE roundStart
           /\ moved' = Append(IF first THEN <<>> ELSE moved,
                              [flow |-> idx, src |-> sourceState, dst |-> destinationState,
                               cap |-> adjustedCapacity(stocks, flow, state, destinationState),
                               rate |-> compute(flow.rate.formula, state),
                               rem |-> change[1], add |-> change[2]])
    /\ idx' = idx - 1
    /\ UNCHANGED <<stocks, flows, initialPath, pc, error, rounds, snapshots, parseVars, unitVars>>

\* the end of State.advance and the rest of the iteration of run's loop: the
\* deferred additions are applied and the snapshot is pushed
AdvanceCommit ==
    /\ pc = "advance"
    /\ idx = 0
    /\ state' = ApplyDeferred(state, deferred)
    /\ deferred' = <<>>
    /\ snapshots' = Append(snapshots, state')
    /\ roundStart' = IF Len(flows) = 0 THEN state ELSE roundStart
    /\ moved' = IF Len(flows) = 0 THEN <<>> ELSE moved
    /\ IF MoreRounds(Len(snapshots), rounds)
       THEN /\ idx' = Len(flows)
            /\ UNCHANGED pc
       ELSE /\ idx' = 0
            /\ pc' = "done"
    /\ UNCHANGED <<stocks, flows, initialPath, error, rounds, parseVars, unitVars>>

Next ==
    \/ AddStock
    \/ AddInfiniteStock
    \/ AddFlow
    \/ Run
    \/ AdvanceFlow
    \/ AdvanceCommit

Spec == Init /\ [][Next]_vars

(***************************************************************************)
(* parse.ts: a spec text is a list of lines "first > second @ flow", read   *)
(* into a new model line by line                                            *)
(***************************************************************************)
TOKEN_STOCK == "stock"
TOKEN_STOCK_INFINITE == "infinite_stock"

\* a lexed stock: its kind, its name and the lexed formulas of its parameters
StockToken(token, name, params) == [token |-> token, name |-> name, params |-> params]
\* a lexed flow: the name of its class ("" when none is written) and its parameters
FlowToken(classStr, params) == [classStr |-> classStr, params |-> params]

\* buildStock: the stocks of the model afterwards, the position of the stock
\* returned and the error thrown ("" when none).  A field already replaced
\* stays replaced when the other field raises the error.
buildStock(ss, tok) ==
    IF tok.token = TOKEN_STOCK_INFINITE
    THEN [stocks |-> Append(ss, Stock(tok.name, F1(Infinity), DefaultMaximum, FALSE)),
          ref |-> Len(ss) + 1, error |-> ""]
    ELSE
    LET initial == IF Len(tok.params) > 0 THEN Formula(tok.params[1]) ELSE DefaultInitial
        maximum == IF Len(tok.params) > 1 THEN Formula(tok.params[2]) ELSE DefaultMaximum
    IN  IF tok.name \in Names(ss)
        THEN LET i == stockIndex(ss, tok.name)
                 exists == ss[i]
                 initialGiven == initial.lexed # DefaultInitial.lexed
                 initialTaken == /\ exists.initial.lexed # initial.lexed
                                 /\ exists.initial.lexed = DefaultInitial.lexed
                 afterInitial == IF initialGiven /\ initialTaken
                                 THEN [exists EXCEPT !.initial = initial] ELSE exists
                 maximumGiven == maximum.lexed # DefaultMaximum.lexed
                 maximumTaken == /\ afterInitial.maximum.lexed # maximum.lexed
                                 /\ afterInitial.maximum.lexed = DefaultMaximum.lexed
                 afterMaximum == IF maximumGiven /\ maximumTaken
                                 THEN [afterInitial EXCEPT !.maximum = maximum]
                                 ELSE afterInitial
             IN  IF initialGiven /\ ~initialTaken
                 THEN [stocks |-> ss, ref |-> i, error |-> "ConflictingValues"]
                 ELSE IF maximumGiven /\ ~maximumTaken
                 THEN [stocks |-> [ss EXCEPT ![i] = afterInitial], ref |-> i,
                       error |-> "ConflictingValues"]
                 ELSE [stocks |-> [ss EXCEPT ![i] = afterMaximum], ref |-> i, error |-> ""]
        ELSE [stocks |-> Append(ss, Stock(tok.name, initial, maximum, TRUE)),
              ref |-> Len(ss) + 1, error |-> ""]

\* String.toLowerCase on the class names a flow may carry
toLowerCase(str) ==
    CASE str = "Rate" -> "rate"
      [] str = "RATE" -> "rate"
      [] str = "Conversion" -> "conversion"
      [] str = "Leak" -> "leak"
      [] str = "Foo" -> "foo"
      [] OTHER -> str

\* buildFlow without the test for a decimal: a flow without class is a Rate
rateClassWithoutDecimal(tok) ==
    LET lowerClassStr == toLowerCase(tok.classStr)
    IN  CASE lowerClassStr = "leak" -> "Leak"
          [] lowerClassStr = "conversion" -> "Conversion"
          [] lowerClassStr = "rate" -> "Rate"
          [] tok.classStr = "" -> "Rate"
          [] OTHER -> ""

\* buildFlow: the class of rate chosen for a flow token, "" when unknown
rateClass(tok) ==
    LET lowerClassStr == toLowerCase(tok.classStr)
    IN  CASE lowerClassStr = "leak" -> "Leak"
          [] lowerClassStr = "conversion" -> "Conversion"
          [] lowerClassStr = "rate" -> "Rate"
          [] tok.classStr = "" ->
                IF /\ Len(tok.params) > 0
                   /\ Len(tok.params[1]) = 1
                   /\ tok.params[1][1].kind = TOKEN_DECIMAL
                THEN "Conversion" ELSE "Rate"
          [] OTHER -> ""

\* buildFlow and Model.flow: the flows of the model afterwards and the error
\* thrown ("" when none)
buildFlow(ss, fs, src, dest, tok) ==
    IF rateClass(tok) = ""
    THEN [flows |-> fs, error |-> "UnknownFlowType"]
    ELSE LET rate == [kind |-> rateClass(tok), formula |-> Formula(tok.params[1])]
         IN  IF validateSource(rate, ss[src])
             THEN [flows |-> Append(fs, Flow(ss, src, dest, rate)), error |-> ""]
             ELSE [flows |-> fs, error |-> "IllegalSourceStock"]

\* the errors that carry their own line information
DeferLineInfo == {"InvalidParameters", "ConflictingValues", "UnknownFlowType"}

\* the catch block of parse: an error that carries line information is thrown
\* again as it is, any other error is wrapped in a ParseError
thrownByParse(e) == IF e \in DeferLineInfo THEN e ELSE "ParseError(" \o e \o ")"

\* one iteration of parse's loop over the lines: the first stock, the second
\* stock, the flow between them, up to the first error
parseLine(ss, fs, line) ==
    LET one == buildStock(ss, line.first)
        two == buildStock(one.stocks, line.second)
        three == buildFlow(two.stocks, fs, one.ref, two.ref, line.flow)
    IN  IF one.error # ""
        THEN [stocks |-> one.stocks, flows |-> fs, error |-> thrownByParse(one.error)]
        ELSE IF two.error # ""
        THEN [stocks |-> two.stocks, flows |-> fs, error |-> thrownByParse(two.error)]
        ELSE [stocks |-> two.stocks, flows |-> three.flows,
              error |-> IF three.error = "" THEN "" ELSE thrownByParse(three.error)]

\* a spec text has at most MaxLines lines
MaxLines == 2

\* the parameter lists a stock is written with: none, (8), (2), (0, 4), (8, 7)
ParamForms ==
    {<<>>, <<(<<Whole(8)>>)>>, <<(<<Whole(2)>>)>>,
     <<(<<Whole(0)>>), (<<Whole(4)>>)>>, <<(<<Whole(8)>>), (<<Whole(7)>>)>>}

\* the ways of writing the stock name: Name, Name(...), [Name]
StockTokens(name) ==
    {StockToken(TOKEN_STOCK, name, params) : params \in ParamForms}
        \cup {StockToken(TOKEN_STOCK_INFINITE, name, <<>>)}

\* the flows written: "@ 3", "@ 0.5", "@ Leak(0.5)"
FlowTokens ==
    {FlowToken("", <<(<<Whole(3)>>)>>), FlowToken("", <<(<<Decimal(1, 2)>>)>>),
     FlowToken("Leak", <<(<<Decimal(1, 2)>>)>>)}

\* the lines offered as line k of a text: the first line runs from a to b,
\* the second from a or b again to c
Lines(k) ==
    IF k = 1
    THEN {[first |-> one, second |-> two, flow |-> f] :
             one \in StockTokens("a"), two \in StockTokens("b"), f \in FlowTokens}
    ELSE {[first |-> one, second |-> two, flow |-> f] :
             one \in StockTokens("a") \cup StockTokens("b"),
             two \in {StockToken(TOKEN_STOCK, "c", <<>>),
                      StockToken(TOKEN_STOCK_INFINITE, "c", <<>>)},
             f \in FlowTokens}

\* a model that keeps the stocks and flows of the parse before
ModelKept(name) == [stocks |-> stocks, flows |-> flows, initialPath |-> initialPath]

\* new Model(name)
NewModel(name) == [stocks |-> <<>>, flows |-> <<>>, initialPath |-> <<>>]

\* parse reads the next line of the text: in the first pass any line offered,
\* which becomes part of the text; in the second pass the line of the text
ParseLine ==
    /\ pc = "build"
    /\ pos < MaxLines
    /\ pass = 2 => pos < Len(text)
    /\ \E line \in (IF pass = 1 THEN Lines(pos + 1) ELSE {text[pos + 1]}) :
          LET read == parseLine(stocks, flows, line)
          IN  /\ stocks' = read.stocks
              /\ flows' = read.flows
              /\ error' = read.error
              /\ pc' = IF read.error = "" THEN "build" ELSE "failed"
              /\ text' = IF pass = 1 THEN Append(text, line) ELSE text
    /\ pos' = pos + 1
    /\ UNCHANGED <<initialPath, runVars, pass, firstRun, unitVars>>

\* the model parse returned is run: in the second pass only once the whole
\* text is read, and for as many rounds as the first time
ParseRun ==
    /\ pos = Len(text)
    /\ Run
    /\ pass = 2 => rounds' = firstRun.rounds

\* the same text is given to parse a second time, for a second run
ParseAgain ==
    /\ pc = "done"
    /\ pass = 1
    /\ firstRun' = [rounds |-> rounds, snapshots |-> snapshots]
    /\ pass' = 2
    /\ pos' = 0
    /\ LET m == NewModel("Parsed")
       IN  /\ stocks' = m.stocks
           /\ flows' = m.flows
           /\ initialPath' = m.initialPath
    /\ pc' = "build"
    /\ rounds' = 0
    /\ state' = EmptyState
    /\ idx' = 0
    /\ deferred' = <<>>
    /\ snapshots' = <<>>
    /\ roundStart' = EmptyState
    /\ moved' = <<>>
    /\ UNCHANGED <<error, text, unitVars>>

ParseNext ==
    \/ ParseLine
    \/ ParseRun
    \/ AdvanceFlow
    \/ AdvanceCommit
    \/ ParseAgain

ParseSpec == Init /\ [][ParseNext]_vars

(***************************************************************************)
(* Properties                                                               *)
(***************************************************************************)
\* run() passed validation: it built a State and pushed the first snapshot
Validated == pc \in {"advance", "done"}

\* the boundary between rounds: the last advance() has been completed
RoundDone ==
    /\ Validated
    /\ Len(snapshots) >= 2
    /\ pc = "advance" => idx = Len(flows)

NoStockEverNegative ==
    (Validated /\ \A name \in DOMAIN snapshots[1] : Ge(snapshots[1][name], Num(0)))
        => \A i \in 1..Len(snapshots) :
              \A name \in DOMAIN snapshots[i] : ~Lt(snapshots[i][name], Num(0))

\* C3 (as claimed): in every snapshot each stock whose maximum is finite holds
\* a value less than or equal to that maximum.  Stated for the maxima written
\* as one number, the plainest case of the claim.
NoStockAboveMaximum ==
    Validated =>
        \A i \in 1..Len(snapshots) :
           \A k \in 1..Len(stocks) :
              LET maximum == compute(stocks[k].maximum, snapshots[i])
              IN  (Len(stocks[k].maximum.lexed) = 1
                   /\ stocks[k].maximum.lexed[1].kind = TOKEN_WHOLE)
                      => ~Gt(snapshots[i][stocks[k].name], maximum)

\* every name a leaf sequence refers to, inside parenthesised groups too
RECURSIVE AllRefs(_)
AllRefs(tokens) ==
    IF tokens = <<>> THEN {}
    ELSE (CASE Head(tokens).kind = TOKEN_REFERENCE -> {Head(tokens).name}
            [] Head(tokens).kind = TOKEN_FORMULA -> AllRefs(Head(tokens).sub)
            [] OTHER -> {})
         \cup AllRefs(Tail(tokens))

\* the stocks that the initial formula of stock name refers to
InitialRefs(name) == AllRefs(getStock(stocks, name).initial.lexed) \cap Names(stocks)

\* the stocks reached from name along at most k references, k >= 1
RECURSIVE Reach(_, _)
Reach(name, k) ==
    IF k = 1 THEN InitialRefs(name)
    ELSE LET r == Reach(name, k - 1)
         IN  r \cup UNION {InitialRefs(x) : x \in r}

\* the graph of references among the initial formulas has a directed cycle
HasRefCycle == \E name \in Names(stocks) : name \in Reach(name, Len(stocks))

\* the names some formula of the model refers to that are no stock of the model
MissingRefs ==
    (UNION {AllRefs(stocks[k].initial.lexed) \cup AllRefs(stocks[k].maximum.lexed) :
               k \in 1..Len(stocks)}
     \cup UNION {AllRefs(flows[k].rate.formula.lexed) : k \in 1..Len(flows)})
    \ Names(stocks)

\* run() was called and has got past validation or failed in it
RunCalled == pc # "build" /\ error # "IllegalSourceStock"

\* C4 (as claimed): when the references among the initial formulas form a
\* cycle, run() fails with a circular-reference error, builds no state and
\* returns no snapshot.
CycleAlwaysRejected ==
    (RunCalled /\ HasRefCycle)
        => /\ pc = "failed"
           /\ error = "CircularReferences"
           /\ state = EmptyState
           /\ snapshots = <<>>

\* C5 (as claimed): when a formula of the model refers, anywhere, to a name
\* that is no stock, run() fails in validation and produces no snapshot.
MissingReferenceAlwaysRejected ==
    (RunCalled /\ MissingRefs # {})
        => /\ pc = "failed"
           /\ error \in {"InvalidFormula", "CircularReferences"}
           /\ snapshots = <<>>

\* C6 (as claimed): after validation of an acyclic model every stock starts at
\* the value of its initial formula over the initial values of the stocks it
\* refers to, whatever the order of declaration.
InitialValuesResolved ==
    (Validated /\ ~HasRefCycle)
        => \A k \in 1..Len(stocks) :
              snapshots[1][stocks[k].name] = compute(stocks[k].initial, snapshots[1])

\* v after the removals that the flows of list made from stock name, in order
RECURSIVE Removed(_, _, _)
Removed(v, name, list) ==
    IF list = <<>> THEN v
    ELSE Removed(IF flows[Head(list).flow].source = name THEN Minus(v, Head(list).rem) ELSE v,
                 name, Tail(list))

\* v after the additions that the flows of list made to stock name, in order
RECURSIVE Added(_, _, _)
Added(v, name, list) ==
    IF list = <<>> THEN v
    ELSE Added(IF flows[Head(list).flow].destination = name THEN Plus(v, Head(list).add) ELSE v,
               name, Tail(list))

\* the flows of the round that feed stock name, as positions of moved
Feeding(name) == {k \in 1..Len(moved) : flows[moved[k].flow].destination = name}
\* the flows of the round that drain stock name, as positions of moved
Draining(name) == {k \in 1..Len(moved) : flows[moved[k].flow].source = name}

\* C7: after a round, a stock fed by several flows that all saw unlimited
\* capacity holds its value at the start of the round, minus what its own
\* outgoing flows removed, plus the amount added by every flow feeding it.
FanInAddsEveryAmount ==
    (RoundDone /\ Len(moved) = Len(flows))
        => \A name \in DOMAIN state :
              (Cardinality(Feeding(name)) >= 2 /\ \A k \in Feeding(name) : moved[k].cap = PosInf)
                 => state[name] = Added(Removed(roundStart[name], name, moved), name, moved)

\* two flows have each added a positive amount to one finite stock in a round
FanInWitness ==
    /\ RoundDone
    /\ \E name \in DOMAIN state :
          /\ Cardinality(Feeding(name)) = 2
          /\ \A k \in Feeding(name) : moved[k].cap = PosInf /\ Gt(moved[k].add, Num(0))
          /\ IsFin(state[name])
          /\ Gt(state[name], roundStart[name])

\* stock name is drained by several flows, all of them Rate flows; the round
\* has reached them, and those processed so far had a non-negative rate and
\* unlimited capacity
RateFanOut(name) ==
    /\ Cardinality({i \in 1..Len(flows) : flows[i].source = name}) >= 2
    /\ \A i \in 1..Len(flows) : flows[i].source = name => flows[i].rate.kind = "Rate"
    /\ Draining(name) # {}
    /\ \A k \in Draining(name) : Ge(moved[k].rate, Num(0)) /\ moved[k].cap = PosInf

\* the flows are processed last-inserted first; each flow draining name moved
\* min(rate, what the flows before it left in name), adding what it removed;
\* the total removed is at most what name held when the round began
ServedInReverse(name) ==
    /\ \A k \in 1..Len(moved) : moved[k].flow = Len(flows) - k + 1
    /\ \A k \in Draining(name) :
          /\ moved[k].rem = MathMin(moved[k].rate,
                                    Removed(roundStart[name], name, SubSeq(moved, 1, k - 1)))
          /\ moved[k].add = moved[k].rem
    /\ Le(Minus(roundStart[name], Removed(roundStart[name], name, moved)), roundStart[name])

\* C8 (as claimed): Rate flows of non-negative rate draining one source into
\* unbounded destinations are served in reverse insertion order, each moving
\* min(rate, source remaining), the total never above the source's value at
\* the start of the round.
FanOutServedInReverse ==
    \A name \in DOMAIN state :
       (Validated /\ RateFanOut(name)) => ServedInReverse(name)

\* C8 (amended): the same, for a source that holds a finite, non-negative
\* value when the round begins.
FanOutServedInReverseFromNonNegative ==
    \A name \in DOMAIN state :
       (Validated /\ RateFanOut(name)
        /\ IsFin(roundStart[name]) /\ Ge(roundStart[name], Num(0)))
          => ServedInReverse(name)

\* two Rate flows drained one source that could not serve both in full: the
\* flow inserted last took its whole rate, the other what was left
FanOutWitness ==
    /\ RoundDone
    /\ \E name \in DOMAIN state :
          /\ RateFanOut(name)
          /\ IsFin(roundStart[name]) /\ Gt(roundStart[name], Num(0))
          /\ Draining(name) = {1, 2}
          /\ moved[1].rem = moved[1].rate
          /\ Gt(moved[1].rem, Num(0))
          /\ Gt(moved[2].rem, Num(0))
          /\ Lt(moved[2].rem, moved[2].rate)

\* the state flow number k of the round saw, were no addition visible: the
\* state at the start of the round less the removals of the flows before it
SeenBy(k) ==
    [name \in DOMAIN roundStart |->
        Removed(roundStart[name], name, SubSeq(moved, 1, k - 1))]

ConversionFillsDestination ==
    \A k \in 1..Len(moved) :
       LET e == moved[k]
           need == Divide(e.cap, e.rate)
       IN  (/\ Validated
            /\ flows[e.flow].rate.kind = "Conversion"
            /\ IsFin(e.dst) /\ IsFin(e.cap) /\ Gt(e.cap, Num(0))
            /\ Gt(e.rate, Num(0))
            /\ need.d = 1
            /\ Ge(e.src, need))
              => e.add = e.cap /\ e.rem = need

\* the entries of moved made by flows of the given kind of rate
MovedBy(kind) == {k \in 1..Len(moved) : flows[moved[k].flow].rate.kind = kind}

\* C11 (as claimed): a Conversion flow of factor f processed when its source
\* holds s removes at most s from the source and adds at most floor(s * f) to
\* the destination, bounded or not.
ConversionWithinSource ==
    Validated
        => \A k \in MovedBy("Conversion") :
              LET e == moved[k]
              IN  (IsFin(e.src) /\ IsFin(e.rate))
                     => /\ Le(e.rem, e.src)
                        /\ Le(e.add, Floor(Times(e.src, e.rate)))

\* C12: a Conversion flow of factor f that sees unlimited capacity, processed
\* when its source holds s, adds floor(s * f) and removes s; when floor(s * f)
\* is zero it adds and removes nothing.
ConversionIntoUnlimited ==
    Validated
        => \A k \in MovedBy("Conversion") :
              LET e == moved[k]
                  made == Floor(Times(e.src, e.rate))
              IN  (e.cap = PosInf /\ IsFin(e.src) /\ IsFin(e.rate))
                     => IF made = Num(0)
                        THEN e.rem = Num(0) /\ e.add = Num(0)
                        ELSE e.rem = e.src /\ e.add = made

\* in one round a Conversion into unlimited capacity consumed a whole positive
\* source, and another left alone a positive source too small to make a unit
ConversionIntoUnlimitedWitness ==
    /\ RoundDone
    /\ \E k, l \in MovedBy("Conversion") :
          /\ moved[k].cap = PosInf /\ moved[l].cap = PosInf
          /\ Gt(moved[k].add, Num(0)) /\ moved[k].rem = moved[k].src
          /\ Gt(moved[l].src, Num(0)) /\ moved[l].rem = Num(0) /\ moved[l].add = Num(0)
          /\ state[flows[moved[l].flow].source] = roundStart[flows[moved[l].flow].source]

\* C13 (as claimed): a Rate flow removes what it adds; the amount m is
\* min(rate, source) clamped into [0, capacity] when the source is positive
\* and 0 otherwise, and 0 <= m <= capacity.
RateMovesClampedAmount ==
    Validated
        => \A k \in MovedBy("Rate") :
              LET e == moved[k]
              IN  (IsFin(e.src) /\ IsFin(e.rate) /\ ~IsNaN(e.cap))
                     => /\ e.rem = e.add
                        /\ Gt(e.src, Num(0))
                              => e.rem = MathMin(e.cap, MathMax(Num(0), MathMin(e.rate, e.src)))
                        /\ ~Gt(e.src, Num(0)) => e.rem = Num(0)
                        /\ Le(Num(0), e.rem)
                        /\ Le(e.rem, e.cap)

\* C14: a Leak flow of fraction p processed when its source holds s and its
\* destination has room capacity removes min(floor(s * p), capacity) from the
\* source and adds the same amount to the destination.
LeakMovesFloorClamped ==
    Validated
        => \A k \in MovedBy("Leak") :
              LET e == moved[k]
              IN  (IsFin(e.src) /\ IsFin(e.rate) /\ ~IsNaN(e.cap))
                     => /\ e.rem = MathMin(Floor(Times(e.src, e.rate)), e.cap)
                        /\ e.add = e.rem

\* a Leak flow was held to the room of its destination: floor(s * p) was more
\* than the positive room, and the room is what moved
LeakClampedWitness ==
    /\ RoundDone
    /\ \E k \in MovedBy("Leak") :
          /\ IsFin(moved[k].cap) /\ Gt(moved[k].cap, Num(0))
          /\ Gt(Floor(Times(moved[k].src, moved[k].rate)), moved[k].cap)
          /\ moved[k].rem = moved[k].cap
          /\ state[flows[moved[k].flow].destination]
                = Plus(roundStart[flows[moved[k].flow].destination], moved[k].cap)

\* C15 (as claimed): a Rate flow whose formula evaluates to a negative amount,
\* from a positive source into unlimited capacity, moves that negative amount:
\* the source grows and the destination shrinks by it.
NegativeRateMoves ==
    Validated
        => \A k \in MovedBy("Rate") :
              LET e == moved[k]
              IN  (IsFin(e.rate) /\ Lt(e.rate, Num(0)) /\ IsFin(e.src) /\ Gt(e.src, Num(0))
                   /\ e.cap = PosInf)
                     => e.rem = e.rate /\ e.add = e.rate

(***************************************************************************)
(* Properties of parse                                                      *)
(***************************************************************************)
\* the step is parse reading one line, the line text'[pos']
LineRead == pos' = pos + 1

\* the stocks of the model hold count stocks named name
CountNamed(ss, name) == Cardinality({i \in 1..Len(ss) : ss[i].name = name})

\* parse threw the illegal-source-stock error of a flow, with its line
IllegalSourceThrown == error = thrownByParse("IllegalSourceStock")

\* the line just read, when both of its stocks were built: a Conversion or
\* Leak flow from an infinite stock throws, leaving the flows as they were,
\* and any other flow is added to the model
IllegalSourceStep ==
    LET line == text'[pos']
        one == buildStock(stocks, line.first)
        two == buildStock(one.stocks, line.second)
        source == two.stocks[one.ref]
        kind == rateClass(line.flow)
    IN  (one.error = "" /\ two.error = "")
           => IF kind \in {"Conversion", "Leak"} /\ source.initial = F1(Infinity) /\ ~source.show
              THEN /\ pc' = "failed"
                   /\ IllegalSourceThrown'
                   /\ flows' = flows
              ELSE /\ pc' = "build"
                   /\ error' = ""
                   /\ Len(flows') = Len(flows) + 1
                   /\ flows'[Len(flows')].rate.kind = kind
                   /\ flows'[Len(flows')].sourceRef = one.ref
                   /\ flows'[Len(flows')].destinationRef = two.ref

\* C16: a Conversion or Leak flow whose source is an infinite stock is refused
\* with the illegal-source-stock error when the flow is built and is not added
\* to the model; Rate flows from an infinite stock and flows of any kind into
\* one are added; the error is never raised by a step of a run.
IllegalSourceRejectedAtConstruction ==
    [][/\ LineRead => IllegalSourceStep
       /\ (IllegalSourceThrown' /\ ~IllegalSourceThrown) => LineRead]_vars

\* parse has refused a Leak flow out of an infinite stock, after it accepted a
\* Rate flow out of one into another infinite stock
IllegalSourceWitness ==
    /\ pc = "failed"
    /\ IllegalSourceThrown
    /\ pos = 2
    /\ text[1].first.token = TOKEN_STOCK_INFINITE
    /\ text[1].second.token = TOKEN_STOCK_INFINITE
    /\ Len(flows) = 1 /\ flows[1].rate.kind = "Rate"
    /\ text[2].first.token = TOKEN_STOCK_INFINITE
    /\ rateClass(text[2].flow) = "Leak"

\* the first stock of the line just read names a stock the model holds: no
\* stock of that name is added; written without parameters it leaves the
\* stock as it was; an initial (a maximum) that is given and is not the
\* default replaces a stored default; and when every such field given meets a
\* stored default, no error is raised
ReuseStep ==
    LET tok == text'[pos'].first
        i == stockIndex(stocks, tok.name)
        initialGiven == Len(tok.params) > 0 /\ tok.params[1] # DefaultInitial.lexed
        maximumGiven == Len(tok.params) > 1 /\ tok.params[2] # DefaultMaximum.lexed
        initialFree == stocks[i].initial.lexed = DefaultInitial.lexed
        maximumFree == stocks[i].maximum.lexed = DefaultMaximum.lexed
    IN  tok.name \in Names(stocks)
           => /\ CountNamed(stocks', tok.name) = CountNamed(stocks, tok.name)
              /\ tok.params = <<>>
                    => stocks'[i] = stocks[i] /\ error' # "ConflictingValues"
              /\ (initialGiven /\ initialFree) => stocks'[i].initial.lexed = tok.params[1]
              /\ (maximumGiven /\ maximumFree /\ (initialGiven => initialFree))
                    => stocks'[i].maximum.lexed = tok.params[2]
              /\ ((initialGiven => initialFree) /\ (maximumGiven => maximumFree))
                    => error' # "ConflictingValues"

\* C17 (as claimed): mentioning an existing stock again creates no second
\* stock; a mention without parameters leaves its initial and maximum as they
\* were, and a mention giving a non-default initial (or maximum) while the
\* stored one is the default sets the stored field, without an error.
ReuseCreatesNoSecondStock ==
    [][LineRead => ReuseStep]_vars

\* the first stock of the line just read names a stock the model holds: the
\* conflicting-values error is raised exactly when a field is given, is not
\* the default, and differs from a stored value that is not the default; and
\* on the error the stock is as it was
ConflictStep ==
    LET tok == text'[pos'].first
        i == stockIndex(stocks, tok.name)
        initialDiffers == /\ Len(tok.params) > 0
                          /\ tok.params[1] # DefaultInitial.lexed
                          /\ stocks[i].initial.lexed # DefaultInitial.lexed
                          /\ tok.params[1] # stocks[i].initial.lexed
        maximumDiffers == /\ Len(tok.params) > 1
                          /\ tok.params[2] # DefaultMaximum.lexed
                          /\ stocks[i].maximum.lexed # DefaultMaximum.lexed
                          /\ tok.params[2] # stocks[i].maximum.lexed
    IN  (tok.name \in Names(stocks) /\ tok.token = TOKEN_STOCK)
           => /\ error' = "ConflictingValues" <=> (initialDiffers \/ maximumDiffers)
              /\ error' = "ConflictingValues" => stocks'[i] = stocks[i]

\* C18 (as claimed): mentioning an existing stock again raises the
\* conflicting-values error if and only if the mention gives a non-default
\* initial (or maximum) that differs from the value set before, and on the
\* error the stored stock keeps its values.
ConflictIffDifferentValue ==
    [][LineRead => ConflictStep]_vars

\* C19 (as claimed): in the model parse has built so far no two stocks have
\* the same name, however the names were written.
StockNamesUnique ==
    error = ""
        => \A i, j \in 1..Len(stocks) : stocks[i].name = stocks[j].name => i = j

MaxLeaves == 5

\* the leaves offered: 2, a, (2 + a), (), +, *, /
LeafMenu ==
    {Whole(2), Ref("a"), Group(<<Whole(2), Op("+"), Ref("a")>>), Group(<<>>),
     Op("+"), Op("*"), Op("/")}

LeafSeqs == UNION {[1..n -> LeafMenu] : n \in 0..MaxLeaves}

\* the state maps offered: a is 3, a is absent
Envs == {[x \in {"a"} |-> Num(3)], EmptyState}

\* the error a constructor or a computation threw
Thrown(e) == [error |-> e]

FormulaInit ==
    /\ ModelIdle
    /\ leaves \in LeafSeqs
    /\ env \in Envs
    /\ built = None
    /\ value = None
    /\ LexIdle
    /\ ObjIdle
    /\ RenderIdle
    /\ ErrIdle
    /\ GraphIdle

\* new Formula(leaves): the definition is kept and validated
Construct ==
    /\ built = None
    /\ built' = IF validate(leaves) = "" THEN Formula(leaves) ELSE Thrown(validate(leaves))
    /\ UNCHANGED <<stocks, flows, initialPath, pc, error, runVars, parseVars, leaves, env, value, lexVars, objVars, renderVars, errVars, graphVars>>

\* built.compute(env)
Compute ==
    /\ built # None
    /\ "lexed" \in DOMAIN built
    /\ value = None
    /\ value' = IF groupsValid(built.lexed) THEN compute(built, env)
                 ELSE Thrown("InvalidFormula")
    /\ UNCHANGED <<stocks, flows, initialPath, pc, error, runVars, parseVars, leaves, env, built, lexVars, objVars, renderVars, errVars, graphVars>>

FormulaNext ==
    \/ Construct
    \/ Compute

FormulaSpec == FormulaInit /\ [][FormulaNext]_vars

\* the value of a binary operation
BinOp(x, o, y) ==
    CASE o = "+" -> Plus(x, y)
      [] o = "-" -> Minus(x, y)
      [] o = "*" -> Times(x, y)
      [] o = "/" -> Divide(x, y)

\* the left fold of the first k leaves of an alternating sequence: the fold
\* of the leaves before the last operator, that operator, the last operand;
\* a group is one operand, worth its own left fold
RECURSIVE LeftFold(_, _, _)
LeftFold(tokens, k, st) ==
    LET leaf == tokens[k]
        operand == CASE leaf.kind = TOKEN_WHOLE -> Num(leaf.n)
                     [] leaf.kind = TOKEN_DECIMAL -> Fin(leaf.n, leaf.d)
                     [] leaf.kind = TOKEN_INFINITY -> PosInf
                     [] leaf.kind = TOKEN_REFERENCE ->
                           IF leaf.name \in DOMAIN st THEN st[leaf.name] ELSE Undefined
                     [] OTHER -> LeftFold(leaf.sub, Len(leaf.sub), st)
    IN  IF k = 1 THEN operand
        ELSE BinOp(LeftFold(tokens, k - 2, st), tokens[k - 1].name, operand)

\* C21: the value compute returns is the left fold of the operands under the
\* operators in order of appearance, without precedence, a group counting as
\* one operand worth its own left fold.
ComputeIsLeftFold ==
    (value # None /\ "error" \notin DOMAIN value)
        => value = LeftFold(leaves, Len(leaves), env)

\* a formula with a group in which + comes before * was computed to a number
\* that precedence of * over + would not have given
ComputeIsLeftFoldWitness ==
    /\ value # None
    /\ "error" \notin DOMAIN value
    /\ IsFin(value)
    /\ Len(leaves) = 5
    /\ leaves[2] = Op("+") /\ leaves[4] = Op("*")
    /\ \E i \in 1..Len(leaves) : leaves[i].kind = TOKEN_FORMULA
    /\ value # computeWithPrecedence(built, env)

\* the leaf sequence is not empty and alternates operand, operator, operand,
\* from an operand to an operand
WellFormed(tokens) ==
    /\ Len(tokens) % 2 = 1
    /\ \A i \in 1..Len(tokens) : (tokens[i].kind = TOKEN_OP) <=> (i % 2 = 0)

\* C22: the constructor gives a Formula exactly when the leaf sequence is
\* well formed and throws the invalid-formula error otherwise, so that every
\* Formula made holds a well-formed leaf sequence.
ConstructedIffWellFormed ==
    built # None
        => /\ IF WellFormed(leaves) THEN built = Formula(leaves)
              ELSE built = Thrown("InvalidFormula")
           /\ "lexed" \in DOMAIN built => WellFormed(built.lexed)

\* the constructor threw for a sequence that starts and ends with an operand
\* and has two operators side by side
ConstructedIffWellFormedWitness ==
    /\ built = Thrown("InvalidFormula")
    /\ Len(leaves) = 4
    /\ leaves[1].kind # TOKEN_OP /\ leaves[4].kind # TOKEN_OP
    /\ leaves[2].kind = TOKEN_OP /\ leaves[3].kind = TOKEN_OP

(***************************************************************************)
(* buildFlow on its own: one line a > b with a flow written in every way    *)
(***************************************************************************)
\* the class names written before a flow's parameter, "" for none
FlowLabels == {"", "Rate", "Conversion", "Leak", "leak", "RATE", "Foo"}

\* the parameters written: 3, 0.5, (0.5), 0.5 + 2, a * 2, a
FlowParams ==
    {<<Whole(3)>>, <<Decimal(1, 2)>>, <<Group(<<Decimal(1, 2)>>)>>,
     <<Decimal(1, 2), Op("+"), Whole(2)>>, <<Ref("a"), Op("*"), Whole(2)>>, <<Ref("a")>>}

\* the lines a > b, a(8) > b and a(2) > b with each such flow
FlowLines ==
    {[first |-> StockToken(TOKEN_STOCK, "a", params),
      second |-> StockToken(TOKEN_STOCK, "b", <<>>),
      flow |-> FlowToken(label, <<param>>)] :
        params \in {<<>>, <<(<<Whole(8)>>)>>, <<(<<Whole(2)>>)>>},
        label \in FlowLabels, param \in FlowParams}

\* parse reads a text of one line
ParseFlowLine ==
    /\ pc = "build"
    /\ pos = 0
    /\ \E line \in FlowLines :
          LET read == parseLine(stocks, flows, line)
          IN  /\ stocks' = read.stocks
              /\ flows' = read.flows
              /\ error' = read.error
              /\ pc' = IF read.error = "" THEN "build" ELSE "failed"
              /\ text' = Append(text, line)
    /\ pos' = pos + 1
    /\ UNCHANGED <<initialPath, runVars, pass, firstRun, unitVars>>

FlowSpec == Init /\ [][ParseFlowLine]_vars

\* the flow of the one line read is of the kind expected, "" standing for
\* the unknown-flow-type error and no flow
FlowBuiltAs(kind) ==
    IF kind = ""
    THEN error = "UnknownFlowType" /\ pc = "failed" /\ flows = <<>>
    ELSE /\ error = ""
         /\ Len(flows) = 1
         /\ flows[1].rate.kind = kind
         /\ flows[1].rate.formula.lexed = text[1].flow.params[1]

\* the flow-spec is a single decimal literal
SingleDecimal(tok) == Len(tok.params[1]) = 1 /\ tok.params[1][1].kind = TOKEN_DECIMAL

\* C23 (as claimed): a flow without label is a Conversion exactly when it is
\* a single decimal literal and a Rate otherwise; the labels Rate, Conversion
\* and Leak give their own kind; any other label gives the unknown-flow-type
\* error and no flow.
FlowKindByLabel ==
    pos = 1
        => LET tok == text[1].flow
           IN  FlowBuiltAs(CASE tok.classStr = "" ->
                                   IF SingleDecimal(tok) THEN "Conversion" ELSE "Rate"
                             [] tok.classStr \in {"Rate", "Conversion", "Leak"} -> tok.classStr
                             [] OTHER -> "")

\* the label as one of the three class names, whatever the case of its letters
LabelKind(label) ==
    CASE label \in {"Rate", "RATE"} -> "Rate"
      [] label \in {"Conversion"} -> "Conversion"
      [] label \in {"Leak", "leak"} -> "Leak"
      [] OTHER -> ""

\* C23 (amended): the same, the labels being read without regard to the case
\* of their letters.
FlowKindByLabelAnyCase ==
    pos = 1
        => LET tok == text[1].flow
           IN  FlowBuiltAs(IF tok.classStr = ""
                           THEN IF SingleDecimal(tok) THEN "Conversion" ELSE "Rate"
                           ELSE LabelKind(tok.classStr))

\* a flow written without label as a decimal inside parentheses became a Rate
FlowKindWitness ==
    /\ pos = 1
    /\ text[1].flow.classStr = ""
    /\ text[1].flow.params[1] = <<Group(<<Decimal(1, 2)>>)>>
    /\ Len(flows) = 1
    /\ flows[1].rate.kind = "Rate"

(***************************************************************************)
(* lexer.ts: lex reads a text character by character.  A text is a sequence *)
(* of one-character strings; a stock or flow token is kept as the trimmed   *)
(* buffer lexStock or lexFlow is given, of which it is a function.          *)
(***************************************************************************)
NEWLINE == "\n"
WHITESPACE == " "
TAB == "\t"
FLOW_DIRECTION == ">"
FLOW_DELIMITER == "@"
COMMENT == "#"
TOKEN_FLOW == "flow"
TOKEN_COMMENT == "comment"
TOKEN_FLOW_DIRECTION == "flow_direction"
TOKEN_FLOW_DELIMITER == "flow_delimiter"

Letters == {"a", "b", "c", "e", "k", "o", "x", "F", "L"}
DigitChars == <<"0", "1", "2", "3", "4", "5", "6", "7", "8", "9">>
NameChars == Letters \cup {DigitChars[i] : i \in 1..10} \cup {"_"}

\* the length of the match of LEGAL_STOCK_NAME at the start of t, 0 for none
RECURSIVE nameLength(_)
nameLength(t) ==
    IF t = <<>> \/ Head(t) \notin NameChars THEN 0 ELSE 1 + nameLength(Tail(t))

\* the part of t after the name matched
restOf(t) == SubSeq(t, nameLength(t) + 1, Len(t))

\* a parameter set: "(" at the start and ")" at the end
isParameterSet(t) == t # <<>> /\ Head(t) = "(" /\ t[Len(t)] = ")"

\* String.trim
RECURSIVE trim(_)
trim(txt) ==
    IF txt = <<>> THEN txt
    ELSE IF Head(txt) \in {WHITESPACE, TAB, NEWLINE} THEN trim(Tail(txt))
    ELSE IF txt[Len(txt)] \in {WHITESPACE, TAB, NEWLINE} THEN trim(SubSeq(txt, 1, Len(txt) - 1))
    ELSE txt

\* lexStock: the token of the buffer, or the illegal-name error of lexCaller
\* when the trimmed buffer does not start with a letter or the name is
\* followed by something other than a parameter set
lexStock(txt) ==
    LET t == trim(txt)
    IN  IF t # <<>> /\ Head(t) = "[" /\ t[Len(t)] = "]"
        THEN [token |-> TOKEN_STOCK_INFINITE, txt |-> t, error |-> ""]
        ELSE IF t = <<>> \/ Head(t) \notin Letters
        THEN [token |-> TOKEN_STOCK, txt |-> t, error |-> "IllegalStockName"]
        ELSE IF restOf(t) # <<>> /\ ~isParameterSet(restOf(t))
        THEN [token |-> TOKEN_STOCK, txt |-> t, error |-> "IllegalStockName"]
        ELSE [token |-> TOKEN_STOCK, txt |-> t, error |-> ""]

\* lexFlow: the token of the buffer
lexFlow(txt) == [token |-> TOKEN_FLOW, txt |-> trim(txt), error |-> ""]

\* the locals of lex before its loop
lexStart ==
    [i |-> 1, charBuff |-> <<WHITESPACE>>, parsing |-> TOKEN_STOCK, line |-> <<>>,
     tokens |-> <<>>, lineNum |-> 0, error |-> ""]

\* the buffer, when it holds more than the blank, is closed as a token
close(line, token, charBuff) ==
    IF charBuff # <<WHITESPACE>> THEN Append(line, token) ELSE line

\* the error of the token the buffer is closed as, "" when none or not closed
closeError(token, charBuff) == IF charBuff # <<WHITESPACE>> THEN token.error ELSE ""

\* the buffer left as it is when a newline closes it
keepBuffer(charBuff) == charBuff

\* "charBuff = WHITESPACE" of the branches that close the buffer at a newline
resetBuffer(charBuff) == <<WHITESPACE>>

\* the end of an iteration with the mode of the line kept for the next line
lexRestKeepingMode(s, c) ==
    IF c = NEWLINE
    THEN [s EXCEPT !.lineNum = @ + 1,
                   !.error = IF s.error # "" THEN s.error
                             ELSE IF s.charBuff # <<WHITESPACE>> THEN "Error" ELSE "",
                   !.tokens = IF s.line # <<>>
                              THEN Append(@, [lineNum |-> s.lineNum + 1, line |-> s.line])
                              ELSE @,
                   !.line = <<>>,
                   !.charBuff = <<WHITESPACE>>]
    ELSE IF (c = WHITESPACE \/ c = FLOW_DIRECTION) /\ s.parsing # TOKEN_COMMENT
    THEN s
    ELSE [s EXCEPT !.charBuff = Append(@, c)]

\* the end of an iteration of lex's loop that did not continue: at a newline
\* the line is finished, a separator is skipped, any other character is kept
lexRest(s, c) ==
    IF c = NEWLINE
    THEN [s EXCEPT !.lineNum = @ + 1,
                   !.error = IF s.error # "" THEN s.error
                             ELSE IF s.charBuff # <<WHITESPACE>> THEN "Error" ELSE "",
                   !.tokens = IF s.line # <<>>
                              THEN Append(@, [lineNum |-> s.lineNum + 1, line |-> s.line])
                              ELSE @,
                   !.line = <<>>,
                   !.parsing = TOKEN_STOCK,
                   !.charBuff = <<WHITESPACE>>]
    ELSE IF (c = WHITESPACE \/ c = FLOW_DIRECTION) /\ s.parsing # TOKEN_COMMENT
    THEN s
    ELSE [s EXCEPT !.charBuff = Append(@, c)]

\* one iteration of lex's loop, on character c
lexChar(s, c) ==
    LET stock == lexStock(s.charBuff)
        flow == lexFlow(s.charBuff)
    IN  IF c = COMMENT /\ s.line = <<>> /\ s.charBuff = <<WHITESPACE>>
        THEN lexRest([s EXCEPT !.parsing = TOKEN_COMMENT], c)
        ELSE IF s.parsing = TOKEN_COMMENT
        THEN IF c = NEWLINE
             THEN lexRest([s EXCEPT !.line = Append(@, [token |-> TOKEN_COMMENT,
                                                        txt |-> Tail(s.charBuff),
                                                        error |-> ""]),
                                    !.charBuff = resetBuffer(@)], c)
             ELSE lexRest(s, c)
        ELSE IF s.parsing = TOKEN_STOCK
        THEN IF c = COMMENT
             THEN [s EXCEPT !.line = close(@, stock, s.charBuff),
                            !.error = closeError(stock, s.charBuff),
                            !.charBuff = <<WHITESPACE>>,
                            !.parsing = TOKEN_COMMENT]
             ELSE IF c = FLOW_DIRECTION \/ c = FLOW_DELIMITER
             THEN [s EXCEPT !.line = Append(Append(@, stock),
                                            [token |-> IF c = FLOW_DIRECTION
                                                       THEN TOKEN_FLOW_DIRECTION
                                                       ELSE TOKEN_FLOW_DELIMITER,
                                             txt |-> <<c>>, error |-> ""]),
                            !.error = stock.error,
                            !.charBuff = <<WHITESPACE>>,
                            !.parsing = IF c = FLOW_DIRECTION THEN TOKEN_STOCK
                                        ELSE TOKEN_FLOW]
             ELSE IF c = NEWLINE
             THEN lexRest([s EXCEPT !.line = close(@, stock, s.charBuff),
                                    !.error = closeError(stock, s.charBuff),
                                    !.charBuff = resetBuffer(@)], c)
             ELSE lexRest(s, c)
        ELSE IF c = COMMENT
             THEN [s EXCEPT !.line = close(@, flow, s.charBuff),
                            !.charBuff = <<WHITESPACE>>,
                            !.parsing = TOKEN_COMMENT]
             ELSE IF c = NEWLINE
             THEN lexRest([s EXCEPT !.line = close(@, flow, s.charBuff),
                                    !.charBuff = resetBuffer(@)], c)
             ELSE lexRest(s, c)

\* lex gives its text a blank before and a newline after
padded(txt) == <<WHITESPACE>> \o txt \o <<NEWLINE>>

\* the loop of lex from local state s over the rest of the padded text: the
\* locals at the end, or at the iteration that threw
RECURSIVE lexFrom(_, _)
lexFrom(s, txt) ==
    IF s.i + 1 > Len(txt) \/ s.error # "" THEN s
    ELSE lexFrom([lexChar(s, txt[s.i + 1]) EXCEPT !.i = s.i + 1], txt)

\* lex(txt): the error thrown, or the line tokens
lex(txt) ==
    LET end == lexFrom(lexStart, padded(txt))
    IN  [error |-> end.error, tokens |-> end.tokens]

\* a comment holds at most MaxComment characters
MaxComment == 2

\* the code lines a comment is written after; the first are blank
CodeLines ==
    {<<>>, <<WHITESPACE>>, <<TAB>>,
     <<"a", ">", "b", "@", "5">>,
     <<"a", WHITESPACE, ">", WHITESPACE, "b", WHITESPACE, "@", WHITESPACE, "5", WHITESPACE>>,
     <<"a", "(", "5", ")">>,
     <<"[", "a", "]", ">", "b", "@">>,
     <<"a", ">">>,
     <<"a", ">", "b", "@", "L", "(", "5", ")", TAB>>}

\* the characters a comment is written with
CommentChars == {"x", WHITESPACE, FLOW_DELIMITER, FLOW_DIRECTION, "(", "[", COMMENT}

Comments == UNION {[1..n -> CommentChars] : n \in 0..MaxComment}

\* the lines that follow the commented line
NextLines == {<<>>, <<NEWLINE, "b", ">", "c", "@", "1">>}

LexInit ==
    /\ ModelIdle
    /\ FormulaIdle
    /\ ObjIdle
    /\ RenderIdle
    /\ ErrIdle
    /\ GraphIdle
    /\ \E code \in CodeLines, comment \in Comments, next \in NextLines :
          /\ lexText = code \o <<COMMENT>> \o comment \o next
          /\ bare = code \o next
    /\ scan = lexStart

\* one iteration of the loop of lex over the padded source
LexChar ==
    /\ scan # None
    /\ scan.error = ""
    /\ scan.i < Len(padded(lexText))
    /\ scan' = [lexChar(scan, padded(lexText)[scan.i + 1]) EXCEPT !.i = scan.i + 1]
    /\ UNCHANGED <<stocks, flows, initialPath, pc, error, runVars, parseVars,
                   formulaVars, objVars, renderVars, errVars, graphVars,
                   lexText, bare>>

LexSpec == LexInit /\ [][LexChar]_vars

\* the stocks and flows of the line tokens: each line without its comment
\* tokens, the lines left empty dropped
CodeOf(tokens) ==
    LET code == [k \in 1..Len(tokens) |->
                    [lineNum |-> tokens[k].lineNum,
                     line |-> SelectSeq(tokens[k].line,
                                        LAMBDA t : t.token # TOKEN_COMMENT)]]
    IN  SelectSeq(code, LAMBDA l : l.line # <<>>)

\* lex is done with the source: it threw, or it read the last character
LexDone == scan # None /\ (scan.error # "" \/ scan.i = Len(padded(lexText)))

\* the characters of the first line of the source before its comment
RECURSIVE BeforeComment(_)
BeforeComment(txt) ==
    IF txt = <<>> \/ Head(txt) = COMMENT THEN <<>>
    ELSE <<Head(txt)>> \o BeforeComment(Tail(txt))

\* a line with only whitespace before its # is lexed without an error and
\* leaves no stock and no flow token
CommentLineIgnored ==
    (LexDone /\ trim(BeforeComment(lexText)) = <<>>)
        => /\ scan.error = ""
           /\ \A k \in 1..Len(CodeOf(scan.tokens)) : CodeOf(scan.tokens)[k].lineNum # 1

\* a text with a comment after code is lexed as the text without the comment
TrailingCommentStripped ==
    LexDone
        => /\ scan.error = lex(bare).error
           /\ scan.error = "" => CodeOf(scan.tokens) = CodeOf(lex(bare).tokens)

\* C24: comments never change the model: a line whose first non-whitespace
\* character is # contributes no stock and no flow, and a comment after code
\* gives the stocks and flows of the line without it, whatever characters
\* the comment holds.
CommentsChangeNothing == CommentLineIgnored /\ TrailingCommentStripped

(***************************************************************************)
(* State objects side by side over one validated model.  A state map is an  *)
(* object: heap holds the maps, a reference is a place in heap.             *)
(***************************************************************************)
\* each State object receives at most MaxCalls calls after its construction
MaxCalls == 3

\* the validated models the State objects are built over: numbers under a
\* Rate and a Conversion, and an initial value that refers to another stock
StateModels ==
    LET numbers == <<Stock("a", F1(Whole(8)), DefaultMaximum, TRUE),
                     Stock("b", F1(Whole(1)), F1(Whole(4)), TRUE),
                     Stock("c", DefaultInitial, DefaultMaximum, TRUE)>>
        refs == <<Stock("a", F3(Ref("b"), "+", Whole(1)), DefaultMaximum, TRUE),
                  Stock("b", F1(Whole(2)), DefaultMaximum, TRUE)>>
    IN  {[stocks |-> numbers,
          flows |-> <<Flow(numbers, 1, 2, [kind |-> "Rate", formula |-> F1(Whole(3))]),
                      Flow(numbers, 2, 3, [kind |-> "Conversion",
                                           formula |-> F1(Decimal(1, 2))])>>],
         [stocks |-> refs,
          flows |-> <<Flow(refs, 1, 2, [kind |-> "Rate", formula |-> F1(Whole(3))])>>]}

\* the value a test writes into a state map directly
Written == Num(20)

\* State.snapshot with the state map itself returned
snapshotByReference(hp, ref) == [heap |-> hp, ref |-> ref]

\* State.snapshot: { ...this.state } is a new map with the entries of the
\* state map
snapshot(hp, ref) == [heap |-> Append(hp, hp[ref]), ref |-> Len(hp) + 1]

\* the state field with one map shared by every State object
stateFieldShared(hp, refs) ==
    IF \E o \in DOMAIN refs : refs[o] # 0
    THEN refs[CHOOSE o \in DOMAIN refs : refs[o] # 0]
    ELSE Len(hp) + 1

\* the field "state: StateMap = {}" of a new State object: a new map
stateField(hp, refs) == Len(hp) + 1

\* the heap with map m written at place ref
Store(hp, ref, m) == IF ref > Len(hp) THEN Append(hp, m) ELSE [hp EXCEPT ![ref] = m]

\* State.advance on state map st: the first loop from flow i down, then the
\* deferred additions
RECURSIVE advanceLoop(_, _, _, _, _)
advanceLoop(ss, fs, i, st, list) ==
    IF i = 0 THEN ApplyDeferred(st, list)
    ELSE LET flow == fs[i]
             change == FlowChange(ss, flow, st, st[flow.source], st[flow.destination])
         IN  advanceLoop(ss, fs, i - 1, Withdraw(st, flow, change), Defer(list, flow, change))

advance(ss, fs, st) == advanceLoop(ss, fs, Len(fs), st, <<>>)

StateInit ==
    /\ \E m \in StateModels :
          /\ stocks = m.stocks
          /\ flows = m.flows
          /\ validateExistingStocks(m.stocks, m.flows)
          /\ ~validateInitialCycles(m.stocks).hasCycle
          /\ initialPath = validateInitialCycles(m.stocks).initialPath
    /\ pc = "build"
    /\ error = ""
    /\ rounds = 0
    /\ state = EmptyState
    /\ idx = 0
    /\ deferred = <<>>
    /\ snapshots = <<>>
    /\ roundStart = EmptyState
    /\ moved = <<>>
    /\ text = <<>>
    /\ pos = 0
    /\ pass = 1
    /\ firstRun = [rounds |-> 0, snapshots |-> <<>>]
    /\ FormulaIdle
    /\ LexIdle
    /\ ObjIdle
    /\ RenderIdle
    /\ ErrIdle
    /\ GraphIdle

modelVars == <<stocks, flows, initialPath, pc, error>>

\* o = new State(model)
NewStateObject(o) ==
    /\ stateOf[o] = 0
    /\ LET ref == stateField(heap, stateOf)
           s0 == NewState(stocks, initialPath)
       IN  /\ heap' = Store(heap, ref, s0)
           /\ stateOf' = [stateOf EXCEPT ![o] = ref]
           /\ alone' = [alone EXCEPT ![o] = s0]
    /\ UNCHANGED <<modelVars, runVars, parseVars, formulaVars, lexVars, renderVars, errVars,
                   graphVars, shots, taken, calls>>

\* o.advance(), the whole call
Advance(o) ==
    /\ stateOf[o] # 0
    /\ calls[o] < MaxCalls
    /\ heap' = [heap EXCEPT ![stateOf[o]] = advance(stocks, flows, @)]
    /\ alone' = [alone EXCEPT ![o] = advance(stocks, flows, @)]
    /\ calls' = [calls EXCEPT ![o] = @ + 1]
    /\ UNCHANGED <<modelVars, runVars, parseVars, formulaVars, lexVars, renderVars, errVars,
                   graphVars, stateOf, shots, taken>>

\* o.snapshot()
Snapshot(o) ==
    /\ stateOf[o] # 0
    /\ calls[o] < MaxCalls
    /\ LET made == snapshot(heap, stateOf[o])
       IN  /\ heap' = made.heap
           /\ shots' = Append(shots, made.ref)
           /\ taken' = Append(taken, made.heap[made.ref])
    /\ calls' = [calls EXCEPT ![o] = @ + 1]
    /\ UNCHANGED <<modelVars, runVars, parseVars, formulaVars, lexVars, renderVars, errVars,
                   graphVars, stateOf, alone>>

\* o.state[name] = Written, for the first stock of the model
Change(o) ==
    /\ stateOf[o] # 0
    /\ calls[o] < MaxCalls
    /\ heap' = [heap EXCEPT ![stateOf[o]] = Put(@, stocks[1].name, Written)]
    /\ alone' = [alone EXCEPT ![o] = Put(@, stocks[1].name, Written)]
    /\ calls' = [calls EXCEPT ![o] = @ + 1]
    /\ UNCHANGED <<modelVars, runVars, parseVars, formulaVars, lexVars, renderVars, errVars,
                   graphVars, stateOf, shots, taken>>

StateNext ==
    \E o \in Objects :
        \/ NewStateObject(o)
        \/ Advance(o)
        \/ Snapshot(o)
        \/ Change(o)

StateSpec == StateInit /\ [][StateNext]_vars

\* C25: a snapshot is an independent copy: every map snapshot() has returned
\* holds what it held when it was returned, whatever advance() and direct
\* changes of the live state came after.
SnapshotsKeepTheirValues ==
    \A k \in 1..Len(shots) : heap[shots[k]] = taken[k]

\* a snapshot differs from the live state it was taken from: the state was
\* advanced or changed after snapshot() returned
SnapshotsKeepTheirValuesWitness ==
    \E k \in 1..Len(shots), o \in Objects :
        /\ stateOf[o] # 0
        /\ taken[k] = NewState(stocks, initialPath)
        /\ heap[stateOf[o]] = advance(stocks, flows, taken[k])
        /\ heap[stateOf[o]] # taken[k]
        /\ heap[shots[k]] = taken[k]

\* C26: two State objects over one validated model are independent: after
\* every call, in every interleaving, each holds the state map it holds when
\* it is the only State object, and no call changes the stocks, the flows or
\* the initialization order of the model.
StatesIndependent ==
    [][/\ \A o \in Objects : stateOf'[o] # 0 => heap'[stateOf'[o]] = alone'[o]
       /\ UNCHANGED <<stocks, flows, initialPath>>]_vars

\* both State objects live, at different points of the same trajectory
StatesIndependentWitness ==
    /\ stateOf["A"] # 0
    /\ stateOf["B"] # 0
    /\ stateOf["A"] # stateOf["B"]
    /\ heap[stateOf["A"]] = advance(stocks, flows, advance(stocks, flows, NewState(stocks, initialPath)))
    /\ heap[stateOf["B"]] = advance(stocks, flows, NewState(stocks, initialPath))
    /\ heap[stateOf["A"]] # heap[stateOf["B"]]

(***************************************************************************)
(* Model.render: the snapshots of a run as a table, a sequence of           *)
(* characters                                                               *)
(***************************************************************************)
\* the decimal digits of a natural number
RECURSIVE NatString(_)
NatString(n) ==
    IF n < 10 THEN <<DigitChars[n + 1]>>
    ELSE NatString(n \div 10) \o <<DigitChars[(n % 10) + 1]>>

\* the digits after the point of r/d, r < d, for a fraction that ends
RECURSIVE FracString(_, _)
FracString(r, d) ==
    IF r = 0 THEN <<>>
    ELSE <<DigitChars[((r * 10) \div d) + 1]>> \o FracString((r * 10) % d, d)

\* the characters of a word
Word(w) ==
    CASE w = "Infinity" -> <<"I", "n", "f", "i", "n", "i", "t", "y">>
      [] w = "NaN" -> <<"N", "a", "N">>
      [] w = "undefined" -> <<"u", "n", "d", "e", "f", "i", "n", "e", "d">>
      [] w = "big" -> <<"b", "i", "g">>
      [] OTHER -> <<w>>

\* String(x) of a number or of undefined
StringOf(x) ==
    CASE x.k = "inf" -> Word("Infinity")
      [] x.k = "ninf" -> <<"-">> \o Word("Infinity")
      [] x.k = "nan" -> Word("NaN")
      [] x.k = "fin" ->
            (IF x.n < 0 THEN <<"-">> ELSE <<>>)
                \o NatString(Abs(x.n) \div x.d)
                \o (IF Abs(x.n) % x.d = 0 THEN <<>>
                    ELSE <<".">> \o FracString(Abs(x.n) % x.d, x.d))
      [] OTHER -> Word("undefined")

\* String.padEnd
padEnd(str, n) == str \o [i \in 1..(IF Len(str) < n THEN n - Len(str) ELSE 0) |-> " "]

\* Array.join
RECURSIVE join(_, _)
join(list, by) ==
    IF list = <<>> THEN <<>>
    ELSE IF Len(list) = 1 THEN list[1]
    ELSE list[1] \o by \o join(Tail(list), by)

\* the columns of render with no stock left out
colStocksAll(ss) == ss

\* the columns of render: this.stocks.filter((s) => s.show)
colStocks(ss) == SelectSeq(ss, LAMBDA s : s.show)

\* snapshot[name], undefined for a name the snapshot does not hold
Cell(snap, name) == IF name \in DOMAIN snap THEN snap[name] ELSE Undefined

\* Model.render(results, sep, pad)
render(ss, results, separator, padding) ==
    LET cols == colStocks(ss)
        header == <<separator>> \o join([j \in 1..Len(cols) |-> Word(cols[j].name)],
                                        <<separator>>)
        colSize == [j \in 1..Len(cols) |-> Len(Word(cols[j].name))]
        num(i, j) == IF padding THEN padEnd(StringOf(Cell(results[i], cols[j].name)), colSize[j])
                     ELSE StringOf(Cell(results[i], cols[j].name))
        row(i) == NatString(i - 1)
                    \o join([j \in 1..Len(cols) |-> <<separator>> \o num(i, j)], <<>>)
    IN  join(<<header>> \o [i \in 1..Len(results) |-> row(i)], <<NEWLINE>>)

\* the models rendered: a flow between shown stocks, an infinite source, only
\* infinite stocks, no stock, a stock created hidden, a shown stock holding
\* infinity beside a fraction
RenderModels ==
    LET shown == <<Stock("a", F1(Whole(8)), DefaultMaximum, TRUE),
                   Stock("big", DefaultInitial, DefaultMaximum, TRUE)>>
        source == <<Stock("a", F1(Infinity), DefaultMaximum, FALSE),
                    Stock("big", DefaultInitial, DefaultMaximum, TRUE)>>
        hidden == <<Stock("a", F1(Whole(8)), DefaultMaximum, TRUE),
                    Stock("b", F1(Whole(1)), DefaultMaximum, FALSE),
                    Stock("c", DefaultInitial, DefaultMaximum, TRUE)>>
        rate == [kind |-> "Rate", formula |-> F1(Whole(3))]
    IN  {[stocks |-> shown, flows |-> <<Flow(shown, 1, 2, rate)>>],
         [stocks |-> source, flows |-> <<Flow(source, 1, 2, rate)>>],
         [stocks |-> <<Stock("a", F1(Infinity), DefaultMaximum, FALSE),
                       Stock("b", F1(Infinity), DefaultMaximum, FALSE)>>,
          flows |-> <<>>],
         [stocks |-> <<>>, flows |-> <<>>],
         [stocks |-> hidden, flows |-> <<Flow(hidden, 1, 3, rate)>>],
         [stocks |-> <<Stock("a", F1(Infinity), DefaultMaximum, TRUE),
                       Stock("big", F1(Decimal(5, 2)), DefaultMaximum, TRUE)>>,
          flows |-> <<>>]}

\* the separators given to render
Separators == {"\t", ","}

RenderInit ==
    /\ \E m \in RenderModels :
          /\ stocks = m.stocks
          /\ flows = m.flows
    /\ initialPath = <<>>
    /\ pc = "build"
    /\ error = ""
    /\ rounds = 0
    /\ state = EmptyState
    /\ idx = 0
    /\ deferred = <<>>
    /\ snapshots = <<>>
    /\ roundStart = EmptyState
    /\ moved = <<>>
    /\ text = <<>>
    /\ pos = 0
    /\ pass = 1
    /\ firstRun = [rounds |-> 0, snapshots |-> <<>>]
    /\ FormulaIdle
    /\ LexIdle
    /\ ObjIdle
    /\ ErrIdle
    /\ GraphIdle
    /\ output = None
    /\ sep \in Separators
    /\ pad \in BOOLEAN

\* model.render(model.run(n), sep, pad): the call of render on the list run
\* returned
Render ==
    /\ pc = "done"
    /\ output = None
    /\ output' = render(stocks, snapshots, sep, pad)
    /\ UNCHANGED <<modelVars, runVars, parseVars, formulaVars, lexVars, objVars, errVars,
                   graphVars, sep, pad>>

RenderNext ==
    \/ Run
    \/ AdvanceFlow
    \/ AdvanceCommit
    \/ Render

RenderSpec == RenderInit /\ [][RenderNext]_vars

\* String.split: the pieces of txt between the occurrences of by
RECURSIVE SplitFrom(_, _, _)
SplitFrom(txt, by, piece) ==
    IF txt = <<>> THEN <<piece>>
    ELSE IF Head(txt) = by THEN <<piece>> \o SplitFrom(Tail(txt), by, <<>>)
    ELSE SplitFrom(Tail(txt), by, Append(piece, Head(txt)))

Split(txt, by) == SplitFrom(txt, by, <<>>)

\* a cell without the blanks padEnd put after it
RECURSIVE Unpadded(_)
Unpadded(cell) ==
    IF cell # <<>> /\ cell[Len(cell)] = " " THEN Unpadded(SubSeq(cell, 1, Len(cell) - 1))
    ELSE cell

\* the rows of the output, each as its cells
Table == [i \in 1..Len(Split(output, NEWLINE)) |-> Split(Split(output, NEWLINE)[i], sep)]

\* the output is a table with a column for each stock of cols: a header of
\* their names after an empty corner cell, then for each snapshot k a row
\* of the number k - 1 and the stocks' values
TableOf(cols) ==
    /\ Len(Table) = Len(snapshots) + 1
    /\ Table[1] = <<<<>>>> \o [j \in 1..Len(cols) |-> Word(cols[j].name)]
    /\ \A k \in 1..Len(snapshots) :
          /\ Len(Table[k + 1]) = Len(cols) + 1
          /\ Table[k + 1][1] = NatString(k - 1)
          /\ \A j \in 1..Len(cols) :
                Unpadded(Table[k + 1][j + 1]) = StringOf(Cell(snapshots[k], cols[j].name))

\* C27 (as claimed): render of k snapshots gives k + 1 rows, a header and a
\* row per snapshot numbered from 0 in order, with one column per stock that
\* is not infinite, in insertion order.
RenderColumnsNonInfinite ==
    output # None => TableOf(SelectSeq(stocks, LAMBDA s : ~IsInfinite(s)))

\* C27 (amended): render of k snapshots gives k + 1 rows, a header and a row
\* per snapshot numbered from 0 in order, with one column per stock whose
\* display flag is set, in insertion order; with no such stock the header is
\* the separator alone.
RenderColumnsShown ==
    output # None
        => IF \E i \in 1..Len(stocks) : stocks[i].show
           THEN TableOf(SelectSeq(stocks, LAMBDA s : s.show))
           ELSE /\ Len(Table) = Len(snapshots) + 1
                /\ Split(output, NEWLINE)[1] = <<sep>>
                /\ \A k \in 1..Len(snapshots) : Table[k + 1] = <<NatString(k - 1)>>

\* three rounds rendered of a model with an infinite stock and a shown one
RenderWitness ==
    /\ output # None
    /\ Len(snapshots) = 3
    /\ \E i \in 1..Len(stocks) : IsInfinite(stocks[i])
    /\ \E i \in 1..Len(stocks) : stocks[i].show
    /\ Len(Table) = 4

(***************************************************************************)
(* parse(txt) on a text of characters: lex over the whole text, then the    *)
(* loop over the line tokens, with the error object that reaches the caller *)
(***************************************************************************)
\* the string of a name written in characters
Text(chars) ==
    CASE chars = <<"F", "o", "o">> -> "Foo"
      [] chars = <<"L", "e", "a", "k">> -> "Leak"
      [] chars = <<>> -> ""
      [] OTHER -> chars[1]

\* the number written by a sequence of digits
RECURSIVE NatOf(_)
NatOf(chars) ==
    IF chars = <<>> THEN 0
    ELSE NatOf(SubSeq(chars, 1, Len(chars) - 1)) * 10
            + ((CHOOSE i \in 1..10 : DigitChars[i] = chars[Len(chars)]) - 1)

IsDigits(chars) ==
    chars # <<>> /\ \A i \in 1..Len(chars) : chars[i] \in {DigitChars[j] : j \in 1..10}

RECURSIVE Power10(_)
Power10(n) == IF n = 0 THEN 1 ELSE 10 * Power10(n - 1)

\* the text of the infinite value
INFINITY == <<"i", "n", "f">>

\* lexValue for a value written without a sign: infinity, whole, decimal or
\* reference
lexValue(txt) ==
    LET t == trim(txt)
        point == IF \E i \in 1..Len(t) : t[i] = "."
                 THEN CHOOSE i \in 1..Len(t) : t[i] = "." /\ \A j \in 1..(i - 1) : t[j] # "."
                 ELSE 0
        whole == SubSeq(t, 1, point - 1)
        frac == SubSeq(t, point + 1, Len(t))
    IN  IF t = INFINITY THEN Infinity
        ELSE IF IsDigits(t) THEN Whole(NatOf(t))
        ELSE IF point > 0 /\ IsDigits(whole) /\ IsDigits(frac)
        THEN LET q == Fin(NatOf(whole \o frac), Power10(Len(frac)))
             IN  Decimal(q.n, q.d)
        ELSE Ref(Text(t))

\* lexFormula for a formula that is one value, or nothing
lexFormula(txt) == IF trim(txt) = <<>> THEN <<>> ELSE <<lexValue(txt)>>

\* lexParameters for no parameter set or a set of one parameter
lexParameters(txt) == IF txt = <<>> THEN <<>> ELSE <<lexFormula(SubSeq(txt, 2, Len(txt) - 1))>>

\* the StockToken lexStock makes of the text of a token of lex
stockTokenOf(t) ==
    IF t.token = TOKEN_STOCK_INFINITE
    THEN StockToken(TOKEN_STOCK_INFINITE, Text(SubSeq(t.txt, 2, Len(t.txt) - 1)), <<>>)
    ELSE StockToken(TOKEN_STOCK, Text(SubSeq(t.txt, 1, nameLength(t.txt))),
                    lexParameters(restOf(t.txt)))

\* the FlowToken lexFlow makes of the text of a token of lex
flowTokenOf(t) ==
    IF nameLength(t.txt) > 0 /\ t.txt[1] \in Letters /\ isParameterSet(restOf(t.txt))
    THEN FlowToken(Text(SubSeq(t.txt, 1, nameLength(t.txt))), lexParameters(restOf(t.txt)))
    ELSE FlowToken("", lexParameters(<<"(">> \o t.txt \o <<")">>))

\* the try block of parse for one line: the loop over its tokens from token
\* i on, first and second the stocks built so far (0 for null)
RECURSIVE buildLine(_, _, _, _, _, _)
buildLine(ss, fs, line, i, first, second) ==
    IF i > Len(line) THEN [stocks |-> ss, flows |-> fs, error |-> ""]
    ELSE IF line[i].token \in {TOKEN_STOCK, TOKEN_STOCK_INFINITE}
    THEN IF first = 0 \/ second = 0
         THEN LET made == buildStock(ss, stockTokenOf(line[i]))
              IN  IF made.error # ""
                  THEN [stocks |-> made.stocks, flows |-> fs, error |-> made.error]
                  ELSE IF first = 0
                  THEN buildLine(made.stocks, fs, line, i + 1, made.ref, second)
                  ELSE buildLine(made.stocks, fs, line, i + 1, first, made.ref)
         ELSE buildLine(ss, fs, line, i + 1, first, second)
    ELSE IF line[i].token = TOKEN_FLOW /\ first # 0 /\ second # 0
    THEN LET made == buildFlow(ss, fs, first, second, flowTokenOf(line[i]))
         IN  IF made.error # ""
             THEN [stocks |-> ss, flows |-> made.flows, error |-> made.error]
             ELSE buildLine(ss, made.flows, line, i + 1, first, second)
    ELSE buildLine(ss, fs, line, i + 1, first, second)

\* the catch block of parse for error e of line number n: an error with
\* deferred line information is given the line and thrown again, any other
\* is wrapped in a ParseError
caught(e, line, n) ==
    IF e \in DeferLineInfo
    THEN [name |-> e, line |-> line, lineNumber |-> n]
    ELSE [name |-> "ParseError", line |-> line, lineNumber |-> n, exception |-> e]

\* the loop of parse over the line tokens from line token k on
RECURSIVE parseLines(_, _, _, _)
parseLines(ss, fs, tokens, k) ==
    IF k > Len(tokens) THEN [stocks |-> ss, flows |-> fs, raised |-> None]
    ELSE LET made == buildLine(ss, fs, tokens[k].line, 1, 0, 0)
         IN  IF made.error # ""
             THEN [stocks |-> made.stocks, flows |-> made.flows,
                   raised |-> caught(made.error, tokens[k].line, tokens[k].lineNum)]
             ELSE parseLines(made.stocks, made.flows, tokens, k + 1)

\* parse(txt): lex is called before the loop and outside its try block, so
\* what lex throws reaches the caller as it is
parseText(txt) ==
    LET lexed == lex(txt)
    IN  IF lexed.error # ""
        THEN [stocks |-> <<>>, flows |-> <<>>, raised |-> [name |-> lexed.error]]
        ELSE parseLines(<<>>, <<>>, lexed.tokens, 1)

\* the lines a text is written with: sound, with an illegal name, with an
\* unknown flow type, with an infinite source of a Leak, with parameters,
\* blank, a comment, a Conversion from a stock without parameters, a stock
\* given an infinite initial value
TextLines ==
    {<<"a", ">", "b", "@", "5">>,
     <<"1", "a", ">", "b", "@", "5">>,
     <<"a", ">", "b", "@", "F", "o", "o", "(", "1", ")">>,
     <<"[", "a", "]", ">", "b", "@", "L", "e", "a", "k", "(", "0", ".", "5", ")">>,
     <<"a", "(", "5", ")", ">", "b", "@", "5">>,
     <<"a", "(", "2", ")", ">", "c", "@", "0", ".", "5">>,
     <<"a", "(", "5", ">", "b", "@", "5">>,
     <<"a", " ", ">", " ", "b", "(", "1", ")", " ", "@", " ", "5">>,
     <<"b", "(", "2", ")">>,
     <<>>,
     <<"#", "x">>,
     <<"a", ">", "b", "@", "0", ".", "5">>,
     <<"a", "(", "i", "n", "f", ")">>}

\* a text given to parse has at most MaxTextLines lines
MaxTextLines == 2

Texts == UNION {[1..n -> TextLines] : n \in 1..MaxTextLines}

ErrInit ==
    /\ ModelIdle
    /\ FormulaIdle
    /\ ObjIdle
    /\ RenderIdle
    /\ GraphIdle
    /\ \E t \in Texts : lexText = join(t, <<NEWLINE>>)
    /\ bare = <<>>
    /\ scan = None
    /\ raised = None

\* parse(lexText) up to its loop: new Model and lex(txt), whose error reaches
\* the caller as it is
ParseText ==
    /\ pc = "build"
    /\ scan = None
    /\ LET lexed == lex(lexText)
       IN  IF lexed.error # ""
           THEN /\ raised' = [name |-> lexed.error]
                /\ pc' = "failed"
                /\ error' = lexed.error
                /\ UNCHANGED scan
           ELSE /\ scan' = [tokens |-> lexed.tokens, k |-> 1]
                /\ pc' = IF lexed.tokens = <<>> THEN "parsed" ELSE "lines"
                /\ UNCHANGED <<raised, error>>
    /\ UNCHANGED <<stocks, flows, initialPath, runVars, parseVars, formulaVars, lexText, bare,
                   objVars, renderVars, graphVars>>

\* one iteration of the loop of parse over the line tokens
ParseTokens ==
    /\ pc = "lines"
    /\ LET token == scan.tokens[scan.k]
           made == buildLine(stocks, flows, token.line, 1, 0, 0)
       IN  /\ stocks' = made.stocks
           /\ flows' = made.flows
           /\ IF made.error # ""
              THEN /\ raised' = caught(made.error, token.line, token.lineNum)
                   /\ pc' = "failed"
                   /\ error' = raised'.name
                   /\ UNCHANGED scan
              ELSE /\ scan' = [scan EXCEPT !.k = @ + 1]
                   /\ pc' = IF scan.k = Len(scan.tokens) THEN "parsed" ELSE "lines"
                   /\ UNCHANGED <<raised, error>>
    /\ UNCHANGED <<initialPath, runVars, parseVars, formulaVars, lexText, bare, objVars,
                   renderVars, graphVars>>

ErrNext ==
    \/ ParseText
    \/ ParseTokens

ErrSpec == ErrInit /\ [][ErrNext]_vars

\* the lines of the text given to parse
TextLinesOf == Split(lexText, NEWLINE)

\* the text of the first k lines
FirstLines(k) == join(SubSeq(TextLinesOf, 1, k), <<NEWLINE>>)

\* the number of the line whose content made parse fail: the first line lex
\* cannot scan when there is one, else the first line whose stocks and flows
\* cannot be built after those of the lines before
FaultLine ==
    IF lex(lexText).error # ""
    THEN CHOOSE k \in 1..Len(TextLinesOf) :
            /\ lex(FirstLines(k)).error # ""
            /\ \A j \in 1..(k - 1) : lex(FirstLines(j)).error = ""
    ELSE CHOOSE k \in 1..Len(TextLinesOf) :
            /\ parseText(FirstLines(k)).raised # None
            /\ \A j \in 1..(k - 1) : parseText(FirstLines(j)).raised = None

\* the error object carries the number of the line at fault and, when that
\* line can be scanned, its tokens
CarriesLine ==
    /\ "lineNumber" \in DOMAIN raised
    /\ raised.lineNumber = FaultLine
    /\ "line" \in DOMAIN raised
    /\ lex(TextLinesOf[FaultLine]).error = ""
          => raised.line = lex(TextLinesOf[FaultLine]).tokens[1].line

\* an error raised while the stocks and flows of a line are built carries
\* the line: as itself when it has deferred line information, else as the
\* exception of a ParseError
BuildErrorsCarryLine ==
    (raised # None /\ lex(lexText).error = "")
        => /\ CarriesLine
           /\ raised = parseText(lexText).raised
           /\ raised.name \in DeferLineInfo \cup {"ParseError"}
           /\ raised.name = "ParseError" => raised.exception \notin DeferLineInfo

\* C28: every error parse raises because of the content of one line, while
\* scanning it or while building its stocks and flows, reaches the caller
\* with the number and the content of that line.
ParseErrorsCarryLine == raised # None => CarriesLine

(***************************************************************************)
(* findCycles on its own, over the graphs of a small node set               *)
(***************************************************************************)
\* the keys of the two maps, in insertion order
GraphNodes == <<"a", "b", "c">>

\* a node has at most MaxEdges outward edges; an edge may be repeated
MaxEdges == 2

EdgeLists ==
    UNION {[1..n -> {GraphNodes[i] : i \in 1..Len(GraphNodes)}] : n \in 0..MaxEdges}

\* the inward map consistent with an outward map: for each node in order and
\* each of its edges in order, the node is pushed on the list of its target
inwardOf(outGraph) ==
    [y \in DOMAIN outGraph |->
        Concat([i \in 1..Len(GraphNodes) |->
                  Repeat(GraphNodes[i], CountOf(outGraph[GraphNodes[i]], y))])]

GraphInit ==
    /\ ModelIdle
    /\ FormulaIdle
    /\ LexIdle
    /\ ObjIdle
    /\ RenderIdle
    /\ ErrIdle
    /\ \E outGraph \in [{GraphNodes[i] : i \in 1..Len(GraphNodes)} -> EdgeLists] :
          graph = [order |-> GraphNodes, inGraph |-> inwardOf(outGraph), outGraph |-> outGraph]
    /\ cycleResult = None
    /\ peel = None

\* findCycles(graph.inGraph, graph.outGraph)
FindCycles ==
    /\ cycleResult = None
    /\ cycleResult' = findCycles(graph.order, graph.inGraph, graph.outGraph)
    /\ UNCHANGED <<modelVars, runVars, parseVars, formulaVars, lexVars, objVars, renderVars,
                   errVars, graph, peel>>

GraphSpec == GraphInit /\ [][FindCycles]_vars

NodeSet == {GraphNodes[i] : i \in 1..Len(GraphNodes)}

\* the nodes an edge of x leads to
Targets(x) == {graph.outGraph[x][i] : i \in 1..Len(graph.outGraph[x])}

\* the nodes reached from x along at most k edges, x itself not counted
\* unless an edge leads back to it
RECURSIVE Reached(_, _)
Reached(x, k) ==
    IF k = 0 THEN {}
    ELSE Targets(x) \cup UNION {Reached(y, k - 1) : y \in Targets(x)}

\* x lies on a directed cycle, a self-loop included
OnCycle(x) == x \in Reached(x, Len(GraphNodes))

\* Kahn's algorithm: the nodes left after the nodes without inward edges from
\* the nodes left have been removed again and again
RECURSIVE Kahn(_)
Kahn(left) ==
    LET free == {x \in left : \A y \in left : x \notin Targets(y)}
    IN  IF free = {} THEN left ELSE Kahn(left \ free)

\* C29: findCycles reports a cycle exactly when the graph has a directed
\* cycle, self-loops included, as Kahn's algorithm does; the nodes left with
\* edges in the residual map are the nodes on a cycle or reached from one,
\* with their edges, and every other node, such as one that only leads into
\* a cycle, is left without edges.
FindCyclesDetectsCycles ==
    cycleResult # None
        => /\ cycleResult.hasCycle <=> (\E x \in NodeSet : OnCycle(x))
           /\ cycleResult.hasCycle <=> (Kahn(NodeSet) # {})
           /\ \A x \in NodeSet :
                 cycleResult.cycles[x] =
                    IF \E y \in NodeSet :
                          OnCycle(y) /\ (x = y \/ x \in Reached(y, Len(GraphNodes)))
                    THEN graph.outGraph[x] ELSE <<>>

\* a cycle found below a node that leads into it and was peeled
FindCyclesDetectsCyclesWitness ==
    /\ cycleResult # None
    /\ cycleResult.hasCycle
    /\ \E x \in NodeSet :
          /\ ~OnCycle(x)
          /\ \E y \in Targets(x) : OnCycle(y)
          /\ cycleResult.cycles[x] = <<>>
          /\ \E i \in 1..Len(cycleResult.initialPath) : cycleResult.initialPath[i] = x

\* the place of x in the order returned, 0 when it is not there
PathIndex(x) ==
    IF \E i \in 1..Len(cycleResult.initialPath) : cycleResult.initialPath[i] = x
    THEN CHOOSE i \in 1..Len(cycleResult.initialPath) : cycleResult.initialPath[i] = x
    ELSE 0

NoDuplicates(seq) == \A i, j \in 1..Len(seq) : seq[i] = seq[j] => i = j

\* C30 (as claimed): for an acyclic graph the order returned has no
\* duplicates, and whenever X references Y, Y is in the order before X.
OrderTopological ==
    (cycleResult # None /\ ~(\E x \in NodeSet : OnCycle(x)))
        => /\ NoDuplicates(cycleResult.initialPath)
           /\ \A x \in NodeSet : \A y \in Targets(x) :
                 /\ PathIndex(x) > 0
                 /\ PathIndex(y) > 0
                 /\ PathIndex(y) < PathIndex(x)

\* C30 (amended): for an acyclic graph the order returned has no duplicates
\* and holds exactly the nodes that reference another; whenever X references
\* Y, Y is in the order before X, or Y references nothing and is not in the
\* order.
OrderTopologicalOverReferencing ==
    (cycleResult # None /\ ~(\E x \in NodeSet : OnCycle(x)))
        => /\ NoDuplicates(cycleResult.initialPath)
           /\ \A x \in NodeSet : PathIndex(x) > 0 <=> Targets(x) # {}
           /\ \A x \in NodeSet : \A y \in Targets(x) :
                 IF Targets(y) = {} THEN PathIndex(y) = 0
                 ELSE PathIndex(y) > 0 /\ PathIndex(y) < PathIndex(x)

\* a chain a -> b -> c: b comes before a in the order, c is not in it
OrderTopologicalWitness ==
    /\ cycleResult # None
    /\ graph.outGraph = [a |-> <<"b">>, b |-> <<"c">>, c |-> <<>>]
    /\ cycleResult.initialPath = <<"b", "a">>

(***************************************************************************)
(* findCycles scan by scan                                                  *)
(***************************************************************************)
otherVars ==
    <<modelVars, runVars, parseVars, formulaVars, lexVars, objVars, renderVars, errVars>>

\* findCycles up to its loop: cycles is a copy of outGraph, deps is empty
PeelStart ==
    /\ peel = None
    /\ peel' = [g |-> [inGraph |-> graph.inGraph, cycles |-> graph.outGraph,
                       deps |-> <<>>, changed |-> TRUE],
                scans |-> 0]
    /\ UNCHANGED <<otherVars, graph, cycleResult>>

\* one iteration of "while (changed)": a scan over all nodes.  The model
\* follows the loop for two scans more than there are nodes.
ScanOnce ==
    /\ peel # None
    /\ peel.g.changed
    /\ peel.scans <= Len(graph.order) + 1
    /\ peel' = [g |-> Scan(graph.order, 1, [peel.g EXCEPT !.changed = FALSE]),
                scans |-> peel.scans + 1]
    /\ UNCHANGED <<otherVars, graph, cycleResult>>

\* the loop has ended: findCycles returns
PeelEnd ==
    /\ peel # None
    /\ ~peel.g.changed
    /\ cycleResult = None
    /\ cycleResult' = [hasCycle |-> \E node \in DOMAIN peel.g.cycles :
                                        Len(peel.g.cycles[node]) > 0,
                       cycles |-> peel.g.cycles,
                       initialPath |-> Reverse(peel.g.deps),
                       inGraph |-> peel.g.inGraph]
    /\ UNCHANGED <<otherVars, graph, peel>>

PeelNext ==
    \/ PeelStart
    \/ ScanOnce
    \/ PeelEnd

\* a call that has started goes on until it returns
PeelSpec == GraphInit /\ [][PeelNext]_vars /\ WF_vars(PeelNext)

\* C31: the loop of findCycles ends on every graph, cyclic or not: the call
\* returns, a scan that reports a change has pushed a node, no node is
\* pushed twice, and there are at most (number of nodes + 1) scans.
PeelTerminates ==
    /\ <>(cycleResult # None)
    /\ [](peel # None
            => /\ peel.scans <= Len(graph.order) + 1
               /\ NoDuplicates(peel.g.deps)
               /\ cycleResult # None => cycleResult = findCycles(graph.order, graph.inGraph,
                                                                 graph.outGraph))
    /\ [][(peel # None /\ peel'.g.changed /\ peel'.scans > peel.scans)
              => Len(peel'.g.deps) > Len(peel.g.deps)]_vars

\* a call that returned after three scans, and one that returned with a cycle
PeelTerminatesWitness ==
    /\ cycleResult # None
    /\ peel.scans = 3
    /\ Len(peel.g.deps) = 2

\* C32: findCycles works on its own copy of the edge maps: after the call
\* the inward map of the caller holds the edges it held before (the outward
\* map is copied into cycles and never written).
CallerMapsUnchanged ==
    cycleResult # None => cycleResult.inGraph = graph.inGraph

(***************************************************************************)
(* validate() and run(n) called again and again on one model                *)
(***************************************************************************)
\* calls made on one model
MaxRepeats == 3

\* models that validate: numbers only, initial values that reference other
\* stocks, an infinite source, no stock at all
RepeatModels ==
    LET chain == <<Stock("a", F3(Ref("b"), "+", Whole(1)), DefaultMaximum, TRUE),
                   Stock("b", F3(Ref("c"), "*", Whole(2)), F1(Whole(9)), TRUE),
                   Stock("c", F1(Whole(3)), DefaultMaximum, TRUE)>>
    IN  StateModels \cup RenderModels \cup
        {[stocks |-> chain,
          flows |-> <<Flow(chain, 1, 2, [kind |-> "Rate", formula |-> F1(Ref("c"))]),
                      Flow(chain, 2, 3, [kind |-> "Leak", formula |-> F1(Decimal(1, 2))])>>]}

RepeatInit ==
    /\ \E m \in RepeatModels :
          /\ stocks = m.stocks
          /\ flows = m.flows
    /\ initialPath = <<>>
    /\ pc = "build"
    /\ error = ""
    /\ rounds = 0
    /\ state = EmptyState
    /\ idx = 0
    /\ deferred = <<>>
    /\ snapshots = <<>>
    /\ roundStart = EmptyState
    /\ moved = <<>>
    /\ text = <<>>
    /\ pos = 0
    /\ pass = 1
    /\ firstRun = [n \in 0..MaxRounds |-> None]
    /\ UnitIdle

\* Model.validate() called by itself
Validate ==
    /\ pc = "build"
    /\ pass <= MaxRepeats
    /\ LET found == validateInitialCycles(stocks)
       IN  IF ~validateExistingStocks(stocks, flows)
           THEN /\ pc' = "failed"
                /\ error' = "InvalidFormula"
                /\ UNCHANGED initialPath
           ELSE IF found.hasCycle
           THEN /\ pc' = "failed"
                /\ error' = "CircularReferences"
                /\ UNCHANGED initialPath
           ELSE /\ initialPath' = cacheInitialPath(initialPath, found.initialPath)
                /\ UNCHANGED <<pc, error>>
    /\ pass' = pass + 1
    /\ UNCHANGED <<stocks, flows, runVars, text, pos, firstRun, unitVars>>

\* Model.run(n) called
RunStarts ==
    /\ pass <= MaxRepeats
    /\ Run

\* run returns its snapshots: the first result for each n is kept as history
RunReturns ==
    /\ pc = "done"
    /\ pc' = "build"
    /\ pass' = pass + 1
    /\ firstRun' = IF firstRun[rounds] = None
                   THEN [firstRun EXCEPT ![rounds] =
                           [initialPath |-> initialPath, snapshots |-> snapshots,
                            stocks |-> stocks, flows |-> flows]]
                   ELSE firstRun
    /\ UNCHANGED <<stocks, flows, initialPath, error, runVars, text, pos, unitVars>>

RepeatNext ==
    \/ Validate
    \/ RunStarts
    \/ AdvanceFlow
    \/ AdvanceCommit
    \/ RunReturns

RepeatSpec == RepeatInit /\ [][RepeatNext]_vars

\* C33: validate() and run(n) are repeatable on one model: a later run(n)
\* ends with the snapshots of the first run(n), every call leaves the same
\* cached initialization order, and the stocks and flows stay as they were.
RunsRepeat ==
    /\ \A n \in 0..MaxRounds :
          firstRun[n] # None
          => /\ firstRun[n].stocks = stocks
             /\ firstRun[n].flows = flows
             /\ firstRun[n].initialPath = initialPath
             /\ (pc = "done" /\ rounds = n) => snapshots = firstRun[n].snapshots
    /\ (pass > 1 /\ pc # "failed") => initialPath = validateInitialCycles(stocks).initialPath
    /\ \E m \in RepeatModels : stocks = m.stocks /\ flows = m.flows

\* a second run(2) has ended on a model with a cached order, after a first
\* one that moved something
RunsRepeatWitness ==
    /\ pc = "done"
    /\ rounds = MaxRounds
    /\ firstRun[rounds] # None
    /\ initialPath # <<>>
    /\ snapshots[Len(snapshots)] # snapshots[1]

(***************************************************************************)
(* lex over every short text                                                *)
(***************************************************************************)
\* a text holds at most MaxText characters
MaxText == 5

\* the characters of the texts: a name, the separators, the comment sign and
\* the newline
TextChars == {"a", WHITESPACE, FLOW_DIRECTION, FLOW_DELIMITER, COMMENT, NEWLINE}

ScanInit ==
    /\ ModelIdle
    /\ FormulaIdle
    /\ ObjIdle
    /\ RenderIdle
    /\ ErrIdle
    /\ GraphIdle
    /\ lexText \in UNION {[1..n -> TextChars] : n \in 0..MaxText}
    /\ bare = <<>>
    /\ scan = lexStart

ScanSpec == ScanInit /\ [][LexChar]_vars

\* the physical lines of a text: one more than its newlines
linesOf(txt) == 1 + Len(SelectSeq(txt, LAMBDA c : c = NEWLINE))

\* line tokens with their line numbers raised by n
raised_by(tokens, n) ==
    [k \in 1..Len(tokens) |-> [tokens[k] EXCEPT !.lineNum = @ + n]]

\* C34: scanning is compositional over lines: for every split of the text at
\* a newline into A and B, lex(A + NL + B) throws what lex(A) throws, else
\* what lex(B) throws, and otherwise gives the line tokens of lex(A) followed
\* by those of lex(B) with the line numbers raised by the physical lines of
\* A; a blank line gives no token but counts.
LexCompositional ==
    LexDone
        => \A k \in 1..Len(lexText) :
              lexText[k] = NEWLINE
              => LET A == SubSeq(lexText, 1, k - 1)
                     B == SubSeq(lexText, k + 1, Len(lexText))
                     a == lex(A)
                     b == lex(B)
                 IN  /\ scan.error = (IF a.error # "" THEN a.error ELSE b.error)
                     /\ scan.error = ""
                           => scan.tokens = a.tokens \o raised_by(b.tokens, linesOf(A))

\* two lines with a blank line between them have been scanned
LexCompositionalWitness ==
    /\ LexDone
    /\ scan.error = ""
    /\ Len(scan.tokens) = 2
    /\ scan.tokens[2].lineNum = 3

\* C39: the error "unused char_buff" is never thrown: at every newline the
\* branch of the mode the line is in has closed the buffer.
UnusedCharBuffUnreachable ==
    scan # None => scan.error # "Error"

\* a line that ends in flow mode with characters in the buffer, and a line
\* after it, have been scanned without an error
UnusedCharBuffWitness ==
    /\ LexDone
    /\ scan.error = ""
    /\ Len(scan.tokens) = 2
    /\ scan.tokens[1].line[Len(scan.tokens[1].line)].token = TOKEN_FLOW

(***************************************************************************)
(* Infinite stocks and the total of a run                                   *)
(***************************************************************************)
\* every flow that draws from stock number i is a Rate whose rate is a
\* finite number in every snapshot
FiniteRateDraws(i) ==
    \A j \in 1..Len(flows) :
        flows[j].sourceRef = i
        => /\ flows[j].rate.kind = "Rate"
           /\ \A k \in 1..Len(snapshots) :
                 compute(flows[j].rate.formula, snapshots[k]).k = "fin"

\* C35: an infinite stock holds positive infinity in every snapshot of a
\* run, whatever Rate flows with a finite rate draw from it and whatever
\* flows feed it.
InfiniteStaysInfinite ==
    \A i \in 1..Len(stocks) :
        (IsInfinite(stocks[i]) /\ FiniteRateDraws(i))
        => \A k \in 1..Len(snapshots) : snapshots[k][stocks[i].name] = PosInf

\* the same when no infinite stock of the model is drawn from at an infinite
\* rate
InfiniteStaysInfiniteUnderFiniteDraws ==
    (\A j \in 1..Len(stocks) : IsInfinite(stocks[j]) => FiniteRateDraws(j))
    => \A i \in 1..Len(stocks) :
          IsInfinite(stocks[i])
          => \A k \in 1..Len(snapshots) : snapshots[k][stocks[i].name] = PosInf

\* the sum of the values of the stocks from number i on in a state map
RECURSIVE TotalFrom(_, _)
TotalFrom(st, i) ==
    IF i > Len(stocks) THEN Num(0)
    ELSE Plus(st[stocks[i].name], TotalFrom(st, i + 1))

Total(st) == TotalFrom(st, 1)

\* every flow is a Rate or a Leak and every stock starts at a finite number
RateAndLeakBetweenFinite ==
    /\ snapshots # <<>>
    /\ \A j \in 1..Len(flows) : flows[j].rate.kind \in {"Rate", "Leak"}
    /\ \A i \in 1..Len(stocks) : snapshots[1][stocks[i].name].k = "fin"

\* C36: in a model whose flows are all Rate or Leak flows between finite
\* stocks the sum of the stock values is the same in every snapshot of a
\* run, also when the capacity of a destination limits what is moved.
TotalConserved ==
    RateAndLeakBetweenFinite
        => \A k \in 1..Len(snapshots) : Total(snapshots[k]) = Total(snapshots[1])

\* every maximum and every rate is a number in every snapshot
ReferencesResolved ==
    /\ \A i \in 1..Len(stocks) : \A k \in 1..Len(snapshots) :
          ~IsNaN(compute(stocks[i].maximum, snapshots[k]))
    /\ \A j \in 1..Len(flows) : \A k \in 1..Len(snapshots) :
          ~IsNaN(compute(flows[j].rate.formula, snapshots[k]))

\* the sum is kept when no maximum and no rate evaluates to NaN
TotalConservedWhenResolved ==
    (RateAndLeakBetweenFinite /\ ReferencesResolved)
        => \A k \in 1..Len(snapshots) : Total(snapshots[k]) = Total(snapshots[1])

(***************************************************************************)
(* Formulas that were constructed, computed                                 *)
(***************************************************************************)
\* C37: every Formula constructed without an error is computed without an
\* error, in every environment: what the constructor validates covers every
\* leaf sequence compute walks, the groups included.
ConstructedComputes ==
    value # None => "error" \notin DOMAIN value

(***************************************************************************)
(* The sources of the flows of a parsed model                               *)
(***************************************************************************)
\* C38: in every model parse returns, the source stock of every Conversion
\* and of every Leak has an initial value that is not positive infinity,
\* whatever the order of the lines, also when the initial value is given by
\* a mention of the stock after the flow was made.
ParsedSourcesFinite ==
    pc = "parsed"
        => \A j \in 1..Len(flows) :
              flows[j].rate.kind \in {"Conversion", "Leak"}
              => compute(stocks[flows[j].sourceRef].initial, EmptyState) # PosInf

\* the same at the moment a flow is made: the source its constructor sees is
\* not infinite
SourcesFiniteWhenMade ==
    [][\A j \in 1..Len(flows') :
          (j > Len(flows) /\ flows'[j].rate.kind \in {"Conversion", "Leak"})
          => compute(stocks'[flows'[j].sourceRef].initial, EmptyState) # PosInf]_vars

====
